---- MODULE Spec2Model ----
(***************************************************************************)
(* A model of the agent routing and orchestration engine of FinHelm-ai:    *)
(* the agent configuration registry (agent_configs.py), the agent factory  *)
(* with its instance cache (agent_factory.py) and the specialist agents'   *)
(* process_query pipelines (finance_agent.py, sales_agent.py,              *)
(* operations_agent.py).                                                   *)
(*                                                                         *)
(* Python strings are TLA+ strings; `k in s` is the contiguous-substring   *)
(* test Contains, str.lower() is Lower, str.split() is Split.  A Python    *)
(* dict is a function whose domain is its key set, and an object that is   *)
(* shared by reference (a registry entry held by an agent instance) is     *)
(* modelled by a reference to the place that holds it, never by a copy.    *)
(***************************************************************************)
EXTENDS Integers, Sequences, FiniteSets, TLC

(***************************************************************************)
(* Bounds of the model.                                                    *)
(***************************************************************************)
MaxWords == 2

(***************************************************************************)
(* Strings.                                                                *)
(***************************************************************************)
Uppers == "ABCDEFGHIJKLMNOPQRSTUVWXYZ"
Lowers == "abcdefghijklmnopqrstuvwxyz"

\* one character of str.lower()
LowerChar(c) ==
    IF \E i \in 1..Len(Uppers) : SubSeq(Uppers, i, i) = c
    THEN LET i == CHOOSE j \in 1..Len(Uppers) : SubSeq(Uppers, j, j) = c
         IN  SubSeq(Lowers, i, i)
    ELSE c

\* str.lower(), the string lowered half by half
RECURSIVE Lower(_)
Lower(s) ==
    IF Len(s) = 0 THEN ""
    ELSE IF Len(s) = 1 THEN LowerChar(s)
    ELSE LET half == Len(s) \div 2
         IN  Lower(SubSeq(s, 1, half)) \o Lower(SubSeq(s, half + 1, Len(s)))

\* `k in s` on Python strings: k occurs in s as a contiguous substring
Contains(s, k) ==
    \E i \in 1..(Len(s) - Len(k) + 1) : SubSeq(s, i, i + Len(k) - 1) = k

\* the pieces of s from position start on that lie between occurrences of
\* the character sep, empty pieces included
RECURSIVE Pieces(_, _, _)
Pieces(s, sep, start) ==
    LET cuts == { i \in start..Len(s) : SubSeq(s, i, i) = sep }
    IN  IF cuts = {} THEN << SubSeq(s, start, Len(s)) >>
        ELSE LET cut == CHOOSE i \in cuts : \A j \in cuts : i <= j
             IN  << SubSeq(s, start, cut - 1) >> \o Pieces(s, sep, cut + 1)

\* the non-empty entries of a sequence of strings, in order
RECURSIVE NonEmpty(_)
NonEmpty(ws) ==
    IF Len(ws) = 0 THEN << >>
    ELSE (IF Head(ws) = "" THEN << >> ELSE << Head(ws) >>) \o NonEmpty(Tail(ws))

\* str.split() of a string whose only blanks are spaces: the maximal runs
\* of non-blank characters, in order
Split(s) == NonEmpty(Pieces(s, " ", 1))

\* " ".join(ws)
RECURSIVE Join(_)
Join(ws) ==
    IF Len(ws) = 0 THEN ""
    ELSE IF Len(ws) = 1 THEN ws[1]
    ELSE ws[1] \o " " \o Join(Tail(ws))

\* the elements of a sequence
Range(f) == {f[i] : i \in DOMAIN f}

(***************************************************************************)
(* Python dicts.                                                           *)
(***************************************************************************)
EmptyDict == [k \in {} |-> 0]

\* dict.get(key, default)
Get(d, k, default) == IF k \in DOMAIN d THEN d[k] ELSE default

\* the value of d after d.update(o)
Update(d, o) ==
    [k \in DOMAIN d \cup DOMAIN o |-> IF k \in DOMAIN o THEN o[k] ELSE d[k]]

(***************************************************************************)
(* agent_configs.py: the static agent catalogue.  A descriptor keeps the   *)
(* keys the engine reads (id, name, capabilities, confidence_threshold,    *)
(* response_format); the threshold is in hundredths.                       *)
(***************************************************************************)
AgentIds == {"finance", "sales", "operations", "executive"}

AGENT_CONFIGURATIONS ==
    [a \in AgentIds |->
       CASE a = "finance" ->
              [id |-> "finance", name |-> "Finance Agent",
               capabilities |->
                 << "Cash flow analysis and forecasting",
                    "Profit & loss statement interpretation",
                    "Budget variance explanations",
                    "Financial KPI calculation and tracking",
                    "Risk assessment and mitigation strategies",
                    "Working capital optimization",
                    "Tax planning insights",
                    "Financial trend analysis" >>,
               response_format |-> "structured_json",
               confidence_threshold |-> 75]
         [] a = "sales" ->
              [id |-> "sales", name |-> "Sales Agent",
               capabilities |->
                 << "Customer lifetime value analysis",
                    "Sales trend and seasonality analysis",
                    "Revenue forecasting and pipeline management",
                    "Customer segmentation and profiling",
                    "Churn prediction and retention strategies",
                    "Product/service performance analysis",
                    "Sales efficiency optimization",
                    "Market opportunity identification" >>,
               response_format |-> "structured_json",
               confidence_threshold |-> 70]
         [] a = "operations" ->
              [id |-> "operations", name |-> "Operations Agent",
               capabilities |->
                 << "Expense analysis and cost optimization",
                    "Inventory management and optimization",
                    "Vendor performance analysis",
                    "Process efficiency improvements",
                    "Resource allocation optimization",
                    "Supply chain risk assessment",
                    "Operational KPI monitoring",
                    "Automation opportunity identification" >>,
               response_format |-> "structured_json",
               confidence_threshold |-> 70]
         [] a = "executive" ->
              [id |-> "executive", name |-> "Executive Agent",
               capabilities |->
                 << "Executive dashboard insights",
                    "Strategic business analysis",
                    "Company-wide KPI monitoring",
                    "Competitive analysis support",
                    "Investment decision support",
                    "Growth opportunity identification",
                    "Risk management overview",
                    "Performance benchmarking" >>,
               response_format |-> "executive_summary",
               confidence_threshold |-> 80]]

\* config=None (or an empty dict): no override
NoConfig == EmptyDict

\* the override configs callers pass to create_agent
Overrides ==
    { [name |-> "Custom Agent", capabilities |-> << "Cash flow" >>] }

\* the queries of the factory's callers
Queries ==
    { "hello",
      "customer churn analysis and retention strategies",
      "vendor cost",
      "KPI dashboard overview",
      "strategy" }

\* the queries put to process_multi_agent_query
MultiQueries ==
    Queries
    \cup { "Give me a complete overview",
           "small customer cost",
           "customer cost",
           "customer cash balance" }

\* the capability lists a registry entry can hold
KnownCapabilities ==
    { AGENT_CONFIGURATIONS[a].capabilities : a \in AgentIds }
    \cup { o.capabilities : o \in { c \in Overrides : "capabilities" \in DOMAIN c } }

\* get_agent_config: the registry entry itself, or a fresh empty dict
get_agent_config(reg, agent_id) ==
    IF agent_id \in DOMAIN reg THEN reg[agent_id] ELSE EmptyDict

\* cap.lower().split() of one capability phrase
PhraseWords(phrase) == Split(Lower(phrase))

\* the words of the lower-cased capability phrases, phrase by phrase
RECURSIVE CapabilityWords(_)
CapabilityWords(capabilities) ==
    IF Len(capabilities) = 0 THEN <<>>
    ELSE PhraseWords(Head(capabilities)) \o CapabilityWords(Tail(capabilities))

\* a score that counts each distinct capability word found in the query once
RelevanceScoreDistinct(words, query_lower) ==
    Cardinality({ word \in Range(words) : Contains(query_lower, word) })

\* relevance_score: one point for every capability word found in the query
RECURSIVE RelevanceScore(_, _)
RelevanceScore(words, query_lower) ==
    IF Len(words) = 0 THEN 0
    ELSE (IF Contains(query_lower, Head(words)) THEN 1 ELSE 0)
         + RelevanceScore(Tail(words), query_lower)

\* the relevance_score validate_agent_request computes for a query
QueryRelevance(capabilities, query) ==
    RelevanceScore(CapabilityWords(capabilities), Lower(query))

\* relevance_score, evaluated once for the capability lists and queries of
\* the factory's callers
RelevanceTable ==
    [capabilities \in KnownCapabilities |->
       [query \in Queries |-> QueryRelevance(capabilities, query)]]

Relevance(capabilities, query) ==
    IF capabilities \in KnownCapabilities /\ query \in Queries
    THEN RelevanceTable[capabilities][query]
    ELSE QueryRelevance(capabilities, query)

\* min(relevance_score / len(capabilities), 1.0) as the fraction num/den
Confidence(score, n) ==
    IF score > n THEN [num |-> n, den |-> n]
    ELSE [num |-> score, den |-> n]

\* confidence > 0.2
AboveFifth(confidence) == 10 * confidence.num > 2 * confidence.den

\* confidence > 0.3
AboveThreshold(confidence) == 10 * confidence.num > 3 * confidence.den

validate_agent_request(reg, agent_id, query) ==
    LET config == get_agent_config(reg, agent_id)
    IN  IF config = EmptyDict
        THEN [valid |-> FALSE, reason |-> "Unknown agent"]
        ELSE LET capabilities == Get(config, "capabilities", <<>>)
                 relevance_score == Relevance(capabilities, query)
                 confidence == Confidence(relevance_score, Len(capabilities))
             IN  [valid |-> TRUE,
                  confidence |-> confidence,
                  recommended |-> AboveThreshold(confidence),
                  agent_name |-> Get(config, "name", "Unknown")]

(***************************************************************************)
(* agent_configs.py: routing.                                              *)
(***************************************************************************)
finance_keywords ==
    << "cash", "profit", "revenue", "expense", "budget", "forecast",
       "financial", "ratio", "balance" >>
sales_keywords ==
    << "customer", "sales", "revenue", "growth", "churn", "retention",
       "pipeline", "conversion" >>
operations_keywords ==
    << "inventory", "vendor", "supplier", "cost", "efficiency", "process",
       "operations" >>
executive_keywords ==
    << "strategy", "kpi", "performance", "overview", "dashboard",
       "executive", "strategic" >>

\* the insertion order of the scores dict
ScoreOrder == << "finance", "sales", "operations", "executive" >>

RouteKeywords(a) ==
    CASE a = "finance" -> finance_keywords
      [] a = "sales" -> sales_keywords
      [] a = "operations" -> operations_keywords
      [] a = "executive" -> executive_keywords

\* sum(1 for keyword in keywords if keyword in query_lower)
RECURSIVE KeywordScore(_, _)
KeywordScore(keywords, query_lower) ==
    IF Len(keywords) = 0 THEN 0
    ELSE (IF Contains(query_lower, Head(keywords)) THEN 1 ELSE 0)
         + KeywordScore(Tail(keywords), query_lower)

\* a max that keeps the last of several maximal keys
RECURSIVE MaxByScoreLastWins(_, _, _)
MaxByScoreLastWins(scores, i, best) ==
    IF i > Len(ScoreOrder) THEN best
    ELSE MaxByScoreLastWins(scores, i + 1,
            IF scores[ScoreOrder[i]] >= scores[best] THEN ScoreOrder[i] ELSE best)

\* max(scores, key=scores.get): Python's max keeps the first maximal key
RECURSIVE MaxByScore(_, _, _)
MaxByScore(scores, i, best) ==
    IF i > Len(ScoreOrder) THEN best
    ELSE MaxByScore(scores, i + 1,
            IF scores[ScoreOrder[i]] > scores[best] THEN ScoreOrder[i] ELSE best)

route_query_to_agent(query) ==
    LET query_lower == Lower(query)
        scores == [a \in AgentIds |-> KeywordScore(RouteKeywords(a), query_lower)]
        best_agent == MaxByScore(scores, 2, ScoreOrder[1])
    IN  IF scores[best_agent] > 0 THEN best_agent ELSE "finance"

\* route_query_to_agent, evaluated once for the queries of the factory's
\* callers
RouteTable == [query \in MultiQueries |-> route_query_to_agent(query)]

Route(query) ==
    IF query \in MultiQueries THEN RouteTable[query] ELSE route_query_to_agent(query)


AllIds == AgentIds \cup { "unknown" }

(***************************************************************************)
(* The specialist agents: FinanceAgent, SalesAgent, OperationsAgent.       *)
(* A class is named by its key in AgentFactory.agent_classes.              *)
(***************************************************************************)
None == "<None>"

\* Python truthiness of a string or None
Falsy(v) == v \in { None, "" }

\* the methods QuickBooksService defines for fetching records
QuickBooksMethods ==
    { "query_accounts", "query_items", "query_invoices",
      "get_profit_loss_report", "query_customers", "query_vendors",
      "query_payments" }

\* keyword_mapping of _analyze_query_requirements, per class
KeywordMapping(class) ==
    CASE class = "finance" ->
           { << "revenue", { "accounts", "invoices" } >>,
             << "income", { "accounts", "profit_loss" } >>,
             << "expense", { "accounts", "profit_loss" } >>,
             << "profit", { "profit_loss" } >>,
             << "loss", { "profit_loss" } >>,
             << "account", { "accounts" } >>,
             << "balance", { "accounts" } >>,
             << "invoice", { "invoices" } >>,
             << "customer", { "invoices" } >>,
             << "item", { "items" } >>,
             << "product", { "items" } >>,
             << "forecast", { "accounts", "invoices", "profit_loss" } >>,
             << "trend", { "accounts", "invoices" } >>,
             << "cash", { "accounts" } >>,
             << "asset", { "accounts" } >>,
             << "liability", { "accounts" } >>,
             << "equity", { "accounts" } >> }
      [] class = "sales" ->
           { << "revenue", { "invoices", "items" } >>,
             << "sales", { "invoices", "customers" } >>,
             << "customer", { "customers", "invoices" } >>,
             << "client", { "customers", "invoices" } >>,
             << "invoice", { "invoices" } >>,
             << "payment", { "payments", "invoices" } >>,
             << "item", { "items", "invoices" } >>,
             << "product", { "items", "invoices" } >>,
             << "service", { "items", "invoices" } >>,
             << "growth", { "invoices", "customers" } >>,
             << "trend", { "invoices", "items" } >>,
             << "forecast", { "invoices", "customers", "items" } >>,
             << "performance", { "invoices", "items", "customers" } >>,
             << "analysis", { "invoices", "customers", "items" } >>,
             << "churn", { "customers", "invoices" } >>,
             << "retention", { "customers", "invoices" } >> }
      [] class = "operations" ->
           { << "expense", { "expenses", "accounts" } >>,
             << "cost", { "expenses", "items" } >>,
             << "inventory", { "items" } >>,
             << "stock", { "items" } >>,
             << "vendor", { "vendors", "bills" } >>,
             << "supplier", { "vendors", "bills" } >>,
             << "bill", { "bills", "vendors" } >>,
             << "purchase", { "bills", "items" } >>,
             << "payable", { "bills", "accounts" } >>,
             << "cash", { "accounts" } >>,
             << "efficiency", { "expenses", "items" } >>,
             << "optimization", { "expenses", "items", "vendors" } >>,
             << "process", { "expenses", "bills" } >>,
             << "workflow", { "expenses", "bills" } >>,
             << "budget", { "accounts", "expenses" } >>,
             << "spending", { "expenses", "bills" } >>,
             << "procurement", { "vendors", "items", "bills" } >> }

\* the requirements used when no keyword matches
DefaultRequirements(class) ==
    CASE class = "finance" -> { "accounts" }
      [] class = "sales" -> { "invoices", "customers" }
      [] class = "operations" -> { "expenses", "vendors" }

\* _analyze_query_requirements
analyze_query_requirements(class, query) ==
    LET query_lower == Lower(query)
        requirements ==
            UNION { m[2] : m \in { n \in KeywordMapping(class) :
                                     Contains(query_lower, n[1]) } }
    IN  IF requirements = {} THEN DefaultRequirements(class) ELSE requirements

\* _analyze_query_requirements, evaluated once for the callers' queries
RequirementsTable ==
    [class \in { "finance", "sales", "operations" } |->
       [query \in MultiQueries |-> analyze_query_requirements(class, query)]]

Requirements(class, query) ==
    IF query \in MultiQueries THEN RequirementsTable[class][query]
    ELSE analyze_query_requirements(class, query)

\* the `if '<type>' in requirements:` blocks of the _fetch_*_data methods,
\* in order, with the QuickBooksService method each one calls
FetchPlan(class) ==
    CASE class = "finance" ->
           << << "accounts", "query_accounts" >>,
              << "invoices", "query_invoices" >>,
              << "items", "query_items" >>,
              << "profit_loss", "get_profit_loss_report" >> >>
      [] class = "sales" ->
           << << "invoices", "query_invoices" >>,
              << "customers", "query_customers" >>,
              << "items", "query_items" >>,
              << "payments", "query_payments" >> >>
      [] class = "operations" ->
           << << "expenses", "query_expenses" >>,
              << "accounts", "query_accounts" >>,
              << "vendors", "query_vendors" >>,
              << "items", "query_items" >>,
              << "bills", "query_bills" >> >>

\* what one fetch stores in the bundle: the records the method returned
\* (operations keeps only the operations-related accounts)
Payload(class, type, method) ==
    [records |-> method,
     filter |-> IF class = "operations" /\ type = "accounts"
                THEN "operations-related" ELSE "all"]

\* _fetch_*_data from block i on: one try around all blocks, so the first
\* exception ends the fetching and the bundle built so far is returned.
\* Calling a method QuickBooksService does not define is an AttributeError.
RECURSIVE Fetch(_, _, _, _, _)
Fetch(class, requirements, qb_fail, i, acc) ==
    IF i > Len(FetchPlan(class)) THEN acc
    ELSE LET type == FetchPlan(class)[i][1]
             method == FetchPlan(class)[i][2]
             called == [acc EXCEPT !.calls = Append(@, "qb." \o method)]
         IN  IF type \notin requirements
             THEN Fetch(class, requirements, qb_fail, i + 1, acc)
             ELSE IF method \notin QuickBooksMethods
                  THEN [acc EXCEPT !.raised = TRUE]
             ELSE IF method \in qb_fail THEN [called EXCEPT !.raised = TRUE]
             ELSE Fetch(class, requirements, qb_fail, i + 1,
                        [called EXCEPT !.data =
                            Update(@, [k \in { type } |->
                                         Payload(class, type, method)]),
                          !.keys = Append(@, type)])

\* a fetch that asks the LLM client which records to fetch
fetch_data_asking(class, requirements, qb_fail) ==
    Fetch(class, requirements, qb_fail, 1,
          [data |-> EmptyDict, keys |-> << >>, calls |-> << "llm.claude" >>,
           raised |-> FALSE])

fetch_data(class, requirements, qb_fail) ==
    Fetch(class, requirements, qb_fail, 1,
          [data |-> EmptyDict, keys |-> << >>, calls |-> << >>,
           raised |-> FALSE])

\* the chart titles of _generate_*_charts for a bundle whose records span
\* several months and categories
ChartTitles(class, data) ==
    LET has(type) == type \in DOMAIN data
        one(cond, title) == IF cond THEN << title >> ELSE << >>
    IN  CASE class = "finance" ->
               one(has("accounts"), "Account Balances by Type")
               \o one(has("invoices"), "Monthly Revenue Trend")
          [] class = "sales" ->
               one(has("invoices"), "Monthly Sales Trend")
               \o one(has("customers") /\ has("invoices"),
                      "Top Customers by Revenue")
          [] class = "operations" ->
               one(has("expenses"), "Monthly Expense Trend")
               \o one(has("expenses"), "Top Expense Categories")
               \o one(has("vendors") /\ has("bills"), "Top Vendors by Spending")

\* the data types _calculate_*_metrics computes metric groups for
MetricTypes(class) ==
    CASE class = "finance" -> { "accounts", "invoices" }
      [] class = "sales" -> { "invoices", "customers", "items" }
      [] class = "operations" -> { "expenses", "vendors", "bills", "items" }

\* the metrics dict, by the data types it was computed from
Metrics(class, data) == [computed_from |-> DOMAIN data \cap MetricTypes(class)]

\* the name of the bundle in the result dict
DataKey(class) ==
    CASE class = "finance" -> "financial_data"
      [] class = "sales" -> "sales_data"
      [] class = "operations" -> "operations_data"

DomainWord(class) ==
    CASE class = "finance" -> "financial"
      [] class = "sales" -> "sales"
      [] class = "operations" -> "operations"

NoAccessResponse(class) ==
    "I need an active QuickBooks connection to analyze your "
    \o DomainWord(class) \o " data. Please connect to QuickBooks first."

ApologyResponse(class) ==
    "I encountered an error while analyzing your " \o DomainWord(class)
    \o " data. Please try rephrasing your question or check your QuickBooks connection."

\* a result dict with the bundle under the class's key
WithData(class, result, data) ==
    Update(result, [k \in { DataKey(class) } |-> data])

\* a no-access result that carries no error tag
NoAccessResultUntagged(class) ==
    WithData(class,
             [response |-> NoAccessResponse(class), charts |-> << >>,
              insights |-> EmptyDict],
             EmptyDict)

\* the result returned when access_token or realm_id is missing
NoAccessResult(class) ==
    WithData(class,
             [response |-> NoAccessResponse(class), charts |-> << >>,
              insights |-> EmptyDict, error |-> "No QuickBooks access"],
             EmptyDict)

\* an except branch that answers as the credential check does
ErrorResultAsRefusal(class, message) == NoAccessResult(class)

\* the result the outer except returns
ErrorResult(class, message) ==
    WithData(class,
             [response |-> ApologyResponse(class), charts |-> << >>,
              insights |-> EmptyDict, error |-> message],
             EmptyDict)


(***************************************************************************)
(* The outcomes of the collaborators during one call: the QuickBooks       *)
(* methods that raise, whether RAGService.add_financial_data raises,       *)
(* whether the RAG search raises inside and whether it finds documents of  *)
(* the user, whether building a chart or computing a metric raises, what   *)
(* the analysis LLM call returns, whether the synthesis LLM call          *)
(* succeeds, and the agent ids whose run under process_multi_agent_query   *)
(* lets an exception escape.  create_agent and process_query catch         *)
(* Exception themselves, so an exception escapes them only when it is      *)
(* raised inside their handlers, as when the interpreter runs out of stack *)
(* or memory.  An LLM reply is its text together with what json.loads      *)
(* makes of it.                                                            *)
(***************************************************************************)
NarrativeText ==
    "Revenue is stable this quarter.\nYou should consider reducing overhead costs.\nOK."

LLMText == [kind |-> "text", content |-> NarrativeText]

LLMJson ==
    [kind |-> "json",
     content |-> "{\"analysis\": \"Margins are thin\", \"recommendations\": [\"Consolidate vendor contracts\"]}",
     parsed |-> [analysis |-> "Margins are thin",
                 recommendations |-> << "Consolidate vendor contracts" >>]]

\* a JSON reply whose "response" member is null
LLMJsonNull ==
    [kind |-> "json",
     content |-> "{\"response\": null, \"insights\": {}}",
     parsed |-> [response |-> None, insights |-> EmptyDict]]

\* a JSON reply, one member to a line, with five recommendations
FiveRecommendations ==
    << "You should collect receivables sooner.",
       "We recommend a monthly cash review.",
       "Consider renegotiating the bank loan.",
       "Improve the invoicing turnaround time.",
       "Optimize the payment terms offered." >>

LLMJsonFive ==
    [kind |-> "json",
     content |->
        "{\n \"response\": \"Cash is tight this quarter.\",\n \"recommendations\": [\n"
        \o "  \"You should collect receivables sooner.\",\n"
        \o "  \"We recommend a monthly cash review.\",\n"
        \o "  \"Consider renegotiating the bank loan.\",\n"
        \o "  \"Improve the invoicing turnaround time.\",\n"
        \o "  \"Optimize the payment terms offered.\"\n ]\n}",
     parsed |-> [response |-> "Cash is tight this quarter.",
                 recommendations |-> FiveRecommendations]]

LLMFail == [kind |-> "fail", message |-> "LLM API request timed out"]

\* the texts of the replies
ReplyTexts ==
    { NarrativeText, LLMJson.content, LLMJsonNull.content, LLMJsonFive.content }

SynthesisText == "Executive summary of the agents' findings."

\* the message of the exception add_financial_data re-raises
RagFailure == "Embedding model unavailable"

\* the message of an exception that escapes an agent's run
EscapeMessage == "maximum recursion depth exceeded"

EnvOk ==
    [qb_fail |-> {}, rag_add |-> "ok", rag_search |-> "ok", rag_hits |-> TRUE,
     charts |-> "ok", llm |-> LLMText, metrics |-> "ok", synthesis |-> "ok",
     escapes |-> {}]

\* the collaborator outcomes tried under the factory
FactoryEnvs == { EnvOk }

\* the contexts callers pass
ContextFull == [access_token |-> "token", realm_id |-> "realm", user_id |-> "A"]

Contexts ==
    { ContextFull,
      [access_token |-> "token", realm_id |-> "realm"],
      [access_token |-> "token", user_id |-> "A"],
      [realm_id |-> "realm", user_id |-> "A"],
      [access_token |-> "", realm_id |-> "realm", user_id |-> "A"],
      EmptyDict }

\* the queries callers put to an agent the factory gave them
FactoryQueries == { "hello", "customer churn analysis and retention strategies" }

FactoryContexts == { ContextFull, [realm_id |-> "realm", user_id |-> "A"] }

\* context lacks the access token or the realm id
LacksAccess(context) ==
    \/ Falsy(Get(context, "access_token", None))
    \/ Falsy(Get(context, "realm_id", None))

(***************************************************************************)
(* _extract_recommendations.                                               *)
(***************************************************************************)
\* str.split('\n'): the pieces between line feeds, empty ones included
SplitLines(s) == Pieces(s, "\n", 1)

Whitespace == { " ", "\t", "\n", "\r" }

\* str.strip()
RECURSIVE Strip(_)
Strip(s) ==
    IF Len(s) = 0 THEN s
    ELSE IF SubSeq(s, 1, 1) \in Whitespace THEN Strip(SubSeq(s, 2, Len(s)))
    ELSE IF SubSeq(s, Len(s), Len(s)) \in Whitespace
         THEN Strip(SubSeq(s, 1, Len(s) - 1))
    ELSE s

\* the recommendation indicators of each class
Indicators(class) ==
    { "recommend", "suggest", "should", "consider", "improve", "optimize" }
    \cup CASE class = "finance" -> { "focus on", "action", "next step" }
           [] class = "sales" -> { "focus on", "increase", "boost", "grow" }
           [] class = "operations" ->
                { "reduce", "streamline", "automate", "consolidate" }

\* the lines kept, in order
RECURSIVE QualifyingLines(_, _)
QualifyingLines(class, lines) ==
    IF Len(lines) = 0 THEN << >>
    ELSE LET line == Strip(Head(lines))
             keep == /\ \E indicator \in Indicators(class) :
                           Contains(Lower(line), indicator)
                     /\ Len(line) > 20
         IN  (IF keep THEN << line >> ELSE << >>)
             \o QualifyingLines(class, Tail(lines))

\* recommendations[:n]
FirstN(seq, n) == SubSeq(seq, 1, IF Len(seq) < n THEN Len(seq) ELSE n)

\* an extraction that keeps every qualifying line
extract_recommendations_unlimited(class, text) ==
    QualifyingLines(class, SplitLines(text))

extract_recommendations(class, text) ==
    FirstN(QualifyingLines(class, SplitLines(text)), 5)

\* _extract_recommendations on the replies of the model, evaluated once
RecommendationsTable ==
    [class \in { "finance", "sales", "operations" } |->
       [text \in ReplyTexts |->
          extract_recommendations(class, text)]]

Recommendations(class, text) ==
    IF text \in ReplyTexts
    THEN RecommendationsTable[class][text]
    ELSE extract_recommendations(class, text)

(***************************************************************************)
(* process_query of the three classes.  The value is the result dict, the  *)
(* collaborator calls made, in order, and the conversation history after   *)
(* the call.  Timestamps are left out of the history entries.              *)
(***************************************************************************)
\* ClaudeService._process_agent_query: the parsed reply, or the reply
\* wrapped in a dict when it is not JSON
claude_agent_response(llm) ==
    IF llm.kind = "json" THEN llm.parsed
    ELSE [response |-> llm.content, insights |-> EmptyDict,
          recommendations |-> << >>, charts |-> << >>, next_steps |-> << >>]

\* a refusal that is logged as an exchange
refuse_logged(agent, query) ==
    [result |-> NoAccessResult(agent.class), calls |-> << >>,
     data_requirements |-> {}, raised |-> << >>, steps |-> << >>,
     conversation_history |->
        Append(agent.conversation_history,
               [query |-> query, response |-> NoAccessResponse(agent.class),
                data_sources |-> << >>])]

\* a refusal that empties the log
refuse_forgetting(agent, query) ==
    [result |-> NoAccessResult(agent.class), calls |-> << >>,
     data_requirements |-> {}, raised |-> << >>, steps |-> << >>,
     conversation_history |-> << >>]

\* the branch of process_query taken when the context lacks access: it
\* returns before any collaborator is called and before the log is written
refuse(agent, query) ==
    [result |-> NoAccessResult(agent.class), calls |-> << >>,
     data_requirements |-> {}, raised |-> << >>, steps |-> << >>,
     conversation_history |-> agent.conversation_history]

\* process_query of the three agent classes: the result returned, the
\* collaborator calls made in order, the data types asked for, the
\* conversation log afterwards, the steps that raised and the steps entered
process_query(agent, query, context, env) ==
    LET class == agent.class
        history == agent.conversation_history
    IN  IF LacksAccess(context)
        THEN refuse(agent, query)
        ELSE
        LET data_requirements == Requirements(class, query)
            fetched == fetch_data(class, data_requirements, env.qb_fail)
            data == fetched.data
            data_sources == fetched.keys
            user_id == Get(context, "user_id", None)
            uses_rag == class # "finance" /\ ~Falsy(user_id)
            rag_raises == uses_rag /\ env.rag_add = "fail" /\ Len(data_sources) > 0
            rag_calls ==
                IF ~uses_rag THEN << >>
                ELSE IF rag_raises THEN << "rag.add" >>
                ELSE [i \in 1..Len(data_sources) |-> "rag.add"] \o << "rag.search" >>
            \* search_relevant_context returns [] when it raises inside
            search_raises == uses_rag /\ env.rag_search = "fail"
            relevant_context == uses_rag /\ ~search_raises /\ env.rag_hits
            \* the chart and metric builders return what they had built when
            \* they raise inside
            charts_raise == env.charts = "fail" /\ ChartTitles(class, data) # << >>
            charts == IF charts_raise THEN << >> ELSE ChartTitles(class, data)
            llm_call == IF class = "finance" THEN "llm.grok" ELSE "llm.claude"
            metrics_raise ==
                env.metrics = "fail" /\ Metrics(class, data).computed_from # {}
            metrics == IF metrics_raise THEN [computed_from |-> {}]
                       ELSE Metrics(class, data)
            one(cond, step) == IF cond THEN << step >> ELSE << >>
            raised_to_llm ==
                one(fetched.raised, "fetch") \o one(search_raises, "rag_search")
                \o one(charts_raise, "charts")
            \* the steps of the pipeline entered, in the order of the code
            steps_to_llm ==
                << "fetch" >>
                \o one(uses_rag /\ Len(data_sources) > 0, "rag_index")
                \o one(uses_rag, "rag_search")
                \o << "charts", "llm" >>
            out(result, calls, log, raised, steps) ==
                [result |-> result, calls |-> calls,
                 data_requirements |-> data_requirements,
                 conversation_history |-> log,
                 raised |-> raised, steps |-> steps]
        IN  IF rag_raises
            THEN out(ErrorResult(class, RagFailure),
                     fetched.calls \o rag_calls, history,
                     one(fetched.raised, "fetch") \o << "rag_index" >>,
                     << "fetch", "rag_index" >>)
            ELSE IF env.llm.kind = "fail"
            THEN out(ErrorResult(class, env.llm.message),
                     fetched.calls \o rag_calls \o << llm_call >>, history,
                     raised_to_llm \o << "llm" >>, steps_to_llm)
            ELSE IF class = "finance"
            THEN LET grok_response == env.llm.content
                 IN  out(WithData(class,
                            [response |-> grok_response,
                             charts |-> charts,
                             insights |->
                                [metrics |-> metrics,
                                 data_sources |-> data_sources,
                                 analysis_type |-> "grok_financial_analysis"],
                             recommendations |->
                                Recommendations(class, grok_response)],
                            data),
                         fetched.calls \o << llm_call >>,
                         Append(history,
                                [query |-> query, response |-> grok_response,
                                 data_sources |-> data_sources]),
                         raised_to_llm \o one(metrics_raise, "metrics"),
                         steps_to_llm \o << "metrics", "log" >>)
            ELSE LET claude_response == claude_agent_response(env.llm)
                 IN  out(WithData(class,
                            [response |-> Get(claude_response, "response", ""),
                             charts |-> charts,
                             insights |->
                                [metrics |-> metrics,
                                 key_insights |->
                                    Get(claude_response, "insights", << >>),
                                 data_sources |-> data_sources,
                                 analysis_type |->
                                    "claude_" \o class \o "_analysis",
                                 rag_context_used |-> relevant_context],
                             recommendations |->
                                Get(claude_response, "recommendations", << >>)],
                            data),
                         fetched.calls \o rag_calls \o << llm_call >>,
                         Append(history,
                                [query |-> query, response |-> claude_response,
                                 data_sources |-> data_sources]),
                         raised_to_llm \o one(metrics_raise, "metrics"),
                         steps_to_llm \o << "metrics", "log" >>)


(***************************************************************************)
(* agent_factory.py: the factory.  An agent instance is an object on the   *)
(* heap `agents`, known by its index; an index is never reused, and an     *)
(* instance that nothing refers to any more is collected.  The config of   *)
(* an instance is the dict object its constructor was handed: the registry *)
(* entry of an agent id (get_agent_config returns the entry, not a copy)   *)
(* or a dict of its own.                                                   *)
(*                                                                         *)
(* The constructors of the three agent classes only build the service      *)
(* objects that AgentFactory.__init__ itself builds, so on a live factory  *)
(* they return and the handler of create_agent (lines 69-72) is not        *)
(* reached.                                                                *)
(***************************************************************************)
MaxAgents == 2
MaxOverrides == 1
MaxLog == 1

\* self.agent_classes: the ids that have a pipeline class
agent_classes == { "finance", "sales", "operations" }

VARIABLES
    pq,           \* the argument a pure function is applied to
    pres,         \* the result of the pure function: [op, arg, val]
    registry,     \* AGENT_CONFIGURATIONS, the module-level dict
    agent_cache,  \* AgentFactory.agent_cache: class id -> instance
    agents,       \* the heap of agent instances
    given,        \* per requested id, the instance create_agent returned
                  \* since the cache was last cleared (0: none)
    overrides,    \* number of create_agent calls that passed a config
    ret,          \* the last call and what it returned
    threads,      \* per thread, where its create_agent call stands
    rag           \* one RAGService: its index and stores

vars ==
    << pq, pres, registry, agent_cache, agents, given, overrides, ret, threads,
       rag >>

pureVars == << pq, pres >>
factoryVars == << registry, agent_cache, agents, given, overrides, ret >>
raceVars == << threads >>
ragVars == << rag >>

\* RAGService after __init__ with no saved index: an empty index and
\* empty stores; `indexed` remembers who indexed what
NewRAGService ==
    [index |-> << >>, document_store |-> EmptyDict,
     metadata_store |-> EmptyDict, clock |-> 0, indexed |-> {}]

\* the threads that share the factory
Threads == { 1, 2 }

\* a thread outside create_agent
Idle == [pc |-> "idle"]

NoResult == [op |-> "none"]

\* an instance that was garbage-collected
Collected == [class |-> "collected"]

\* the heap with every instance outside `live` collected
Collect(heap, live) ==
    [i \in DOMAIN heap |-> IF i \in live THEN heap[i] ELSE Collected]

\* the instances a factory state refers to
Live(cache, call, ghost) ==
    Range(cache) \cup (IF "agent" \in DOMAIN call THEN { call.agent } ELSE {})
    \cup (Range(ghost) \ { 0 })

\* the dict an instance holds as self.config
ConfigOf(reg, agent) ==
    IF agent.config.kind = "registry" THEN reg[agent.config.id]
    ELSE agent.config.dict

\* FinanceAgent(agent_config), SalesAgent(...), OperationsAgent(...)
NewAgent(class, config_ref) ==
    [class |-> class, config |-> config_ref, conversation_history |-> << >>]

\* a fallback to the sales class
ClassOfSales(agent_id) == IF agent_id \in agent_classes THEN agent_id ELSE "sales"

\* the class and cache key create_agent uses for agent_id
ClassOf(agent_id) == IF agent_id \in agent_classes THEN agent_id ELSE "finance"

\* dict[key] = value
Store(d, key, value) == Update(d, [k \in { key } |-> value])

\* create_agent up to the cache check: the registry after the merge of
\* config, the class and cache key, the dict handed to the constructor, and
\* the cached instance if there is one (0: none)
lookup_agent(reg, cache, agent_id, config) ==
    LET known == get_agent_config(reg, agent_id) # EmptyDict
        \* agent_config.update(config) writes into the registry entry when
        \* agent_config is one, and into the fresh dict otherwise
        reg1 == IF known /\ config # NoConfig
                THEN [reg EXCEPT ![agent_id] = Update(@, config)]
                ELSE reg
        own == IF config # NoConfig THEN Update(EmptyDict, config) ELSE EmptyDict
        class == ClassOf(agent_id)
    IN  [registry |-> reg1,
         class |-> class,
         config_ref |-> IF known THEN [kind |-> "registry", id |-> agent_id]
                        ELSE [kind |-> "own", dict |-> own],
         agent |-> IF class \in DOMAIN cache THEN cache[class] ELSE 0]

\* create_agent from the constructor call on: the instance is built and
\* stored under the cache key
construct_agent(cache, heap, class, config_ref) ==
    [agent_cache |-> Store(cache, class, Len(heap) + 1),
     agents |-> Append(heap, NewAgent(class, config_ref)),
     agent |-> Len(heap) + 1]

\* a create_agent that constructs without looking into the cache
create_agent_uncached(reg, cache, heap, agent_id, config) ==
    LET found == lookup_agent(reg, cache, agent_id, config)
        made == construct_agent(cache, heap, found.class, found.config_ref)
    IN  [registry |-> found.registry, agent_cache |-> made.agent_cache,
         agents |-> made.agents, agent |-> made.agent, created |-> TRUE]

\* create_agent: the registry, cache and heap after the call, and the
\* instance returned
create_agent(reg, cache, heap, agent_id, config) ==
    LET found == lookup_agent(reg, cache, agent_id, config)
        made == construct_agent(cache, heap, found.class, found.config_ref)
    IN  IF found.agent # 0
        THEN [registry |-> found.registry, agent_cache |-> cache,
              agents |-> heap, agent |-> found.agent, created |-> FALSE]
        ELSE [registry |-> found.registry, agent_cache |-> made.agent_cache,
              agents |-> made.agents, agent |-> made.agent, created |-> TRUE]

\* a get_best_agent that never substitutes the fallback agent
BestAgentIdRouted(reg, query) == Route(query)

\* the agent id get_best_agent asks create_agent for
BestAgentId(reg, query) ==
    LET recommended_agent_id == Route(query)
        validation == validate_agent_request(reg, recommended_agent_id, query)
    IN  IF Get(validation, "recommended", TRUE)
        THEN recommended_agent_id
        ELSE "finance"

\* the words that make process_multi_agent_query use all three agents
BroadScopeWords == << "overview", "summary", "all", "complete", "comprehensive" >>

\* the routed agent with its secondary agents, whatever the query's scope
agents_to_use_routed(query) ==
    LET query_lower == Lower(query)
        primary_agent == Route(query)
    IN  << primary_agent >>
        \o (IF Contains(query_lower, "customer") /\ primary_agent # "sales"
            THEN << "sales" >> ELSE << >>)
        \o (IF Contains(query_lower, "cost") /\ primary_agent # "operations"
            THEN << "operations" >> ELSE << >>)

\* agents_to_use of process_multi_agent_query
agents_to_use(query) ==
    LET query_lower == Lower(query)
    IN  IF \E i \in DOMAIN BroadScopeWords :
              Contains(query_lower, BroadScopeWords[i])
        THEN << "finance", "sales", "operations" >>
        ELSE LET primary_agent == Route(query)
             IN  << primary_agent >>
                 \o (IF Contains(query_lower, "customer") /\ primary_agent # "sales"
                     THEN << "sales" >> ELSE << >>)
                 \o (IF Contains(query_lower, "cost") /\ primary_agent # "operations"
                     THEN << "operations" >> ELSE << >>)

\* agents_to_use, evaluated once for the callers' queries
AgentsToUseTable == [query \in MultiQueries |-> agents_to_use(query)]

AgentsToUse(query) ==
    IF query \in MultiQueries THEN AgentsToUseTable[query] ELSE agents_to_use(query)

\* str.title() of an agent id: its first letter in upper case
Title(agent_id) ==
    LET first == SubSeq(agent_id, 1, 1)
        i == CHOOSE j \in 1..Len(Lowers) : SubSeq(Lowers, j, j) = first
    IN  SubSeq(Uppers, i, i) \o SubSeq(agent_id, 2, Len(agent_id))

\* sep.join(parts)
RECURSIVE JoinWith(_, _)
JoinWith(sep, parts) ==
    IF Len(parts) = 0 THEN ""
    ELSE IF Len(parts) = 1 THEN parts[1]
    ELSE parts[1] \o sep \o JoinWith(sep, Tail(parts))

\* [f"[{agent_id.title()}] {rec}" for rec in recommendations]
Tagged(agent_id, recommendations) ==
    [i \in 1..Len(recommendations) |->
       "[" \o Title(agent_id) \o "] " \o recommendations[i]]

\* the loop of _synthesize_multi_agent_results over results.items() from
\* entry i on; results is the dict in insertion order, a sequence of
\* [id, result]
RECURSIVE Combine(_, _, _)
Combine(results, i, acc) ==
    IF i > Len(results) THEN acc
    ELSE LET agent_id == results[i].id
             result == results[i].result
             agent_response == Get(result, "response", "")
             insights == Get(result, "insights", EmptyDict)
         IN  IF "error" \in DOMAIN result
             THEN Combine(results, i + 1, acc)
             ELSE Combine(results, i + 1,
                    [response |->
                        IF agent_response # ""
                        THEN Append(acc.response,
                               "**" \o Title(agent_id) \o " Analysis:**\n"
                               \o agent_response)
                        ELSE acc.response,
                     insights |->
                        IF insights # EmptyDict
                        THEN Store(acc.insights, agent_id \o "_insights", insights)
                        ELSE acc.insights,
                     recommendations |->
                        acc.recommendations
                        \o Tagged(agent_id, Get(result, "recommendations", << >>)),
                     charts |-> acc.charts \o Get(result, "charts", << >>),
                     financial_data |->
                        Update(acc.financial_data,
                               Get(result, "financial_data", EmptyDict))])

\* the results dict as a function
ResultsMap(results) ==
    [id \in { results[i].id : i \in DOMAIN results } |->
       LET i == CHOOSE j \in DOMAIN results : results[j].id = id
       IN  results[i].result]

\* a synthesis that returns every combined recommendation
synthesize_untruncated(results, query, env) ==
    LET combined ==
            Combine(results, 1,
                    [response |-> << >>, insights |-> EmptyDict,
                     recommendations |-> << >>, charts |-> << >>,
                     financial_data |-> EmptyDict])
    IN  [response |-> IF env.synthesis = "ok" THEN SynthesisText
                      ELSE JoinWith("\n\n", combined.response),
         multi_agent_results |-> ResultsMap(results),
         charts |-> combined.charts,
         financial_data |-> combined.financial_data,
         insights |->
            [analysis_type |-> "multi_agent_synthesis",
             agents_used |-> [i \in DOMAIN results |-> results[i].id],
             combined_insights |-> combined.insights],
         recommendations |-> combined.recommendations]

\* a synthesis that answers with the summary text whether or not the
\* summary call succeeded
synthesize_summary_only(results, query, env) ==
    LET combined ==
            Combine(results, 1,
                    [response |-> << >>, insights |-> EmptyDict,
                     recommendations |-> << >>, charts |-> << >>,
                     financial_data |-> EmptyDict])
    IN  [response |-> SynthesisText,
         multi_agent_results |-> ResultsMap(results),
         charts |-> combined.charts,
         financial_data |-> combined.financial_data,
         insights |->
            [analysis_type |-> "multi_agent_synthesis",
             agents_used |-> [i \in DOMAIN results |-> results[i].id],
             combined_insights |-> combined.insights],
         recommendations |-> FirstN(combined.recommendations, 10)]

\* _synthesize_multi_agent_results
synthesize_multi_agent_results(results, query, env) ==
    LET combined ==
            Combine(results, 1,
                    [response |-> << >>, insights |-> EmptyDict,
                     recommendations |-> << >>, charts |-> << >>,
                     financial_data |-> EmptyDict])
        synthesized_text == JoinWith("\n\n", combined.response)
        final_response ==
            IF env.synthesis = "ok" THEN SynthesisText ELSE synthesized_text
    IN  [response |-> final_response,
         multi_agent_results |-> ResultsMap(results),
         charts |-> combined.charts,
         financial_data |-> combined.financial_data,
         insights |->
            [analysis_type |-> "multi_agent_synthesis",
             agents_used |-> [i \in DOMAIN results |-> results[i].id],
             combined_insights |-> combined.insights],
         recommendations |-> FirstN(combined.recommendations, 10)]

\* an entry for a raised run that holds the error alone
RaisedResultBare(agent_id, message) == [error |-> message]

\* the entry the loop stores for an agent whose run raised
RaisedResult(agent_id, message) ==
    [error |-> message,
     response |-> "Error processing with " \o agent_id \o " agent"]

\* one pass of the loop of process_multi_agent_query: the agent for
\* agent_id is obtained and queried, and its result stored under agent_id;
\* when the run raises (here on entry to process_query, the instance being
\* made and cached already), the entry stored is the handler's.
\* The instance and its answer are each bound once.
RunAgent(st, agent_id, query, context, env) ==
    IF agent_id \in env.escapes
    THEN CHOOSE next \in
           { [registry |-> made.registry,
              agent_cache |-> made.agent_cache,
              agents |-> made.agents,
              results |-> Append(st.results,
                            [id |-> agent_id,
                             result |-> RaisedResult(agent_id, EscapeMessage)]),
              ran |-> Append(st.ran,
                        [id |-> agent_id, agent |-> made.agent,
                         calls |-> << >>,
                         result |-> RaisedResult(agent_id, EscapeMessage)]),
              calls |-> st.calls] :
             made \in { create_agent(st.registry, st.agent_cache, st.agents,
                                     agent_id, NoConfig) } } : TRUE
    ELSE
    CHOOSE next \in
      UNION { { [registry |-> made.registry,
                 agent_cache |-> made.agent_cache,
                 agents |-> [made.agents EXCEPT
                               ![made.agent].conversation_history =
                                   run.conversation_history],
                 results |-> Append(st.results,
                                    [id |-> agent_id, result |-> run.result]),
                 ran |-> Append(st.ran, [id |-> agent_id, agent |-> made.agent,
                                         calls |-> run.calls,
                                         result |-> run.result]),
                 calls |-> st.calls \o run.calls] :
                run \in { process_query(made.agents[made.agent], query,
                                        context, env) } } :
              made \in { create_agent(st.registry, st.agent_cache, st.agents,
                                      agent_id, NoConfig) } } : TRUE

\* the loop of process_multi_agent_query over agents_to_use from entry i on
RECURSIVE RunAgents(_, _, _, _, _, _)
RunAgents(ids, i, st, query, context, env) ==
    IF i > Len(ids) THEN st
    ELSE CHOOSE final \in
           { RunAgents(ids, i + 1, next, query, context, env) :
               next \in { RunAgent(st, ids[i], query, context, env) } } : TRUE

\* a process_multi_agent_query that synthesizes whatever the number of
\* agents that ran
process_multi_agent_query_synthesized(reg, cache, heap, query, context, env) ==
    LET ids == AgentsToUse(query)
        st == RunAgents(ids, 1,
                 [registry |-> reg, agent_cache |-> cache, agents |-> heap,
                  results |-> << >>, ran |-> << >>, calls |-> << >>],
                 query, context, env)
    IN  [st EXCEPT !.calls = Append(@, "llm.claude_synthesis")]
        @@ [result |-> synthesize_multi_agent_results(st.results, query, env),
            agents_to_use |-> ids, synthesis |-> env.synthesis]

\* process_multi_agent_query: the factory state afterwards, the agents run
\* and the calls made, the result, and how the synthesis LLM call ended
\* ("none" when it was not made)
process_multi_agent_query(reg, cache, heap, query, context, env) ==
    LET ids == AgentsToUse(query)
        st == RunAgents(ids, 1,
                 [registry |-> reg, agent_cache |-> cache, agents |-> heap,
                  results |-> << >>, ran |-> << >>, calls |-> << >>],
                 query, context, env)
    IN  IF Len(st.results) > 1
        THEN [st EXCEPT !.calls = Append(@, "llm.claude_synthesis")]
             @@ [result |-> synthesize_multi_agent_results(st.results, query, env),
                 agents_to_use |-> ids, synthesis |-> env.synthesis]
        ELSE st @@ [result |-> st.results[1].result, agents_to_use |-> ids,
                    synthesis |-> "none"]

(***************************************************************************)
(* The factory and its callers.                                            *)
(***************************************************************************)
Init ==
    /\ pq = ""
    /\ pres = NoResult
    /\ registry = AGENT_CONFIGURATIONS
    /\ agent_cache = EmptyDict
    /\ agents = << >>
    /\ given = [a \in AllIds |-> 0]
    /\ overrides = 0
    /\ ret = NoResult
    /\ threads = [t \in Threads |-> Idle]
    /\ rag = NewRAGService

\* the instances that would be constructed for the ids
Missing(ids) == { ClassOf(ids[i]) : i \in DOMAIN ids } \ DOMAIN agent_cache

\* factory.create_agent(agent_id, config)
CreateAgent(agent_id, config) ==
    /\ Len(agents) + Cardinality(Missing(<< agent_id >>)) <= MaxAgents
    /\ config # NoConfig => overrides < MaxOverrides
    /\ \E r \in { create_agent(registry, agent_cache, agents, agent_id, config) } :
       LET call == [op |-> "create_agent", agent_id |-> agent_id,
                    config |-> config, agent |-> r.agent,
                    created |-> r.created]
           ghost == [given EXCEPT ![agent_id] = r.agent]
       IN  /\ registry' = r.registry
           /\ agent_cache' = r.agent_cache
           /\ agents' = Collect(r.agents, Live(r.agent_cache, call, ghost))
           /\ given' = ghost
           /\ ret' = call
    /\ overrides' = IF config # NoConfig THEN overrides + 1 ELSE overrides
    /\ UNCHANGED << pureVars, ragVars, raceVars >>

\* factory.get_best_agent(query)
GetBestAgent(query) ==
    LET agent_id == BestAgentId(registry, query)
    IN  /\ Len(agents) + Cardinality(Missing(<< agent_id >>)) <= MaxAgents
        /\ \E r \in { create_agent(registry, agent_cache, agents, agent_id,
                                     NoConfig) } :
           LET call == [op |-> "get_best_agent", query |-> query,
                        agent |-> r.agent, created |-> r.created]
               ghost == [given EXCEPT ![agent_id] = r.agent]
           IN  /\ registry' = r.registry
               /\ agent_cache' = r.agent_cache
               /\ agents' = Collect(r.agents, Live(r.agent_cache, call, ghost))
               /\ given' = ghost
               /\ ret' = call
        /\ UNCHANGED << pureVars, ragVars, raceVars, overrides >>

\* factory.clear_agent_cache()
ClearAgentCache ==
    /\ agent_cache' = EmptyDict
    /\ given' = [a \in AllIds |-> 0]
    /\ ret' = [op |-> "clear_agent_cache"]
    /\ agents' = Collect(agents, {})
    /\ UNCHANGED << pureVars, ragVars, raceVars, registry, overrides >>

\* agent.process_query(query, context) on the instance the caller was given
ProcessQuery(query, context, env) ==
    /\ "agent" \in DOMAIN ret
    /\ \E run \in { process_query(agents[ret.agent], query, context, env) } :
           /\ Len(run.conversation_history) <= MaxLog
           /\ agents' = [agents EXCEPT ![ret.agent].conversation_history =
                                          run.conversation_history]
           /\ ret' = [op |-> "process_query", agent |-> ret.agent,
                      query |-> query, context |-> context, env |-> env,
                      calls |-> run.calls, raised |-> run.raised,
                      steps |-> run.steps,
                      data_requirements |-> run.data_requirements,
                      result |-> run.result]
    /\ UNCHANGED << pureVars, ragVars, raceVars, registry, agent_cache, given, overrides >>

Next ==
    \/ \E agent_id \in AllIds, config \in Overrides \cup { NoConfig } :
          CreateAgent(agent_id, config)
    \/ \E query \in Queries : GetBestAgent(query)
    \/ ClearAgentCache
    \/ \E query \in FactoryQueries, context \in FactoryContexts,
          env \in FactoryEnvs :
          ProcessQuery(query, context, env)

Spec == Init /\ [][Next]_vars

(***************************************************************************)
(* The pure functions of agent_configs.py, each applied once to a query    *)
(* of at most MaxWords words of PureWords, or to the example query of the  *)
(* specification.                                                          *)
(***************************************************************************)
PureWords ==
    { "cash", "Revenue", "customer", "cost", "Vendor", "overview",
      "strategy", "hello", "kpi", "growth", "Cashier" }

CashFlowQuery == "what is my cash flow this month"

\* a query in which more capability words of sales occur than sales has
\* capabilities
ChurnQuery == "customer churn analysis and retention strategies"

PureQueries ==
    { Join(ws) : ws \in UNION { [1..n -> PureWords] : n \in 0..MaxWords } }
    \cup { CashFlowQuery, ChurnQuery }

PureInit ==
    /\ pq \in PureQueries
    /\ pres = NoResult
    /\ registry = AGENT_CONFIGURATIONS
    /\ agent_cache = EmptyDict
    /\ agents = << >>
    /\ given = [a \in AllIds |-> 0]
    /\ overrides = 0
    /\ ret = NoResult
    /\ threads = [t \in Threads |-> Idle]
    /\ rag = NewRAGService

\* route(query)
DoRoute ==
    /\ pres = NoResult
    /\ pres' = [op |-> "route", val |-> route_query_to_agent(pq)]
    /\ UNCHANGED << pq, factoryVars, raceVars, ragVars >>

\* validate(agentId, query) on the registry as loaded
DoValidate(agent_id) ==
    /\ pres = NoResult
    /\ pres' = [op |-> "validate", arg |-> agent_id,
                val |-> validate_agent_request(registry, agent_id, pq)]
    /\ UNCHANGED << pq, factoryVars, raceVars, ragVars >>

PureNext ==
    \/ DoRoute
    \/ \E agent_id \in AllIds : DoValidate(agent_id)

SpecPure == PureInit /\ [][PureNext]_vars

(***************************************************************************)
(* One agent of each class, constructed without a config as the chat       *)
(* endpoint constructs it, and queried under every context and every       *)
(* outcome of the collaborators.                                           *)
(***************************************************************************)
AgentEnvs ==
    { EnvOk,
      [EnvOk EXCEPT !.llm = LLMJson],
      [EnvOk EXCEPT !.llm = LLMJsonNull],
      [EnvOk EXCEPT !.llm = LLMFail],
      [EnvOk EXCEPT !.qb_fail = { "query_invoices" }],
      [EnvOk EXCEPT !.rag_add = "fail"],
      [EnvOk EXCEPT !.rag_hits = FALSE],
      [EnvOk EXCEPT !.rag_search = "fail"],
      [EnvOk EXCEPT !.charts = "fail"],
      [EnvOk EXCEPT !.metrics = "fail"],
      [EnvOk EXCEPT !.qb_fail = { "query_accounts" }, !.llm = LLMFail] }

AgentInit ==
    /\ pq = ""
    /\ pres = NoResult
    /\ registry = AGENT_CONFIGURATIONS
    /\ agent_cache = EmptyDict
    /\ agents \in { << NewAgent(class, [kind |-> "own", dict |-> EmptyDict]) >> :
                     class \in agent_classes }
    /\ given = [a \in AllIds |-> 0]
    /\ overrides = 0
    /\ ret = [op |-> "construct", agent |-> 1]
    /\ threads = [t \in Threads |-> Idle]
    /\ rag = NewRAGService

AgentNext ==
    \E query \in Queries, context \in Contexts, env \in AgentEnvs :
       ProcessQuery(query, context, env)

SpecAgent == AgentInit /\ [][AgentNext]_vars

(***************************************************************************)
(* One agent of each class in a conversation: process_query is called on   *)
(* the same instance again and again, until its log holds MaxTurns         *)
(* exchanges.                                                              *)
(***************************************************************************)
MaxTurns == 2

TurnQueries == { "hello", "vendor cost" }

TurnEnvs ==
    { EnvOk,
      [EnvOk EXCEPT !.llm = LLMJson],
      [EnvOk EXCEPT !.llm = LLMFail],
      [EnvOk EXCEPT !.rag_add = "fail"] }

\* agent.process_query(query, context) on the one instance
ProcessQueryAgain(query, context, env) ==
    /\ "agent" \in DOMAIN ret
    /\ \E run \in { process_query(agents[ret.agent], query, context, env) } :
           /\ Len(run.conversation_history) <= MaxTurns
           /\ agents' = [agents EXCEPT ![ret.agent].conversation_history =
                                          run.conversation_history]
           /\ ret' = [op |-> "process_query", agent |-> ret.agent,
                      query |-> query, context |-> context, env |-> env,
                      calls |-> run.calls, raised |-> run.raised,
                      steps |-> run.steps,
                      data_requirements |-> run.data_requirements,
                      result |-> run.result]
    /\ UNCHANGED << pureVars, ragVars, raceVars, registry, agent_cache, given, overrides >>

TurnNext ==
    \E query \in TurnQueries, context \in FactoryContexts, env \in TurnEnvs :
       ProcessQueryAgain(query, context, env)

SpecTurns == AgentInit /\ [][TurnNext]_vars

(***************************************************************************)
(* The factory answering queries with several agents.                      *)
(***************************************************************************)
MaxHeap == 3
MaxExchanges == 3

\* the number of exchanges in the logs of the instances of a heap
RECURSIVE LoggedExchanges(_)
LoggedExchanges(heap) ==
    IF Len(heap) = 0 THEN 0
    ELSE (IF Head(heap) = Collected THEN 0
          ELSE Len(Head(heap).conversation_history))
         + LoggedExchanges(Tail(heap))

\* the collaborator outcomes tried under process_multi_agent_query
MultiEnvs ==
    { EnvOk,
      [EnvOk EXCEPT !.llm = LLMJson],
      [EnvOk EXCEPT !.llm = LLMJsonNull],
      [EnvOk EXCEPT !.llm = LLMJsonFive],
      [EnvOk EXCEPT !.llm = LLMJsonFive, !.rag_add = "fail"],
      [EnvOk EXCEPT !.synthesis = "fail"],
      [EnvOk EXCEPT !.llm = LLMFail, !.synthesis = "fail"],
      [EnvOk EXCEPT !.escapes = { "sales" }] }

\* factory.process_multi_agent_query(query, context)
ProcessMultiAgentQuery(query, context, env) ==
    /\ Len(agents) + Cardinality(Missing(AgentsToUse(query))) <= MaxHeap
    /\ LoggedExchanges(agents) + Len(AgentsToUse(query)) <= MaxExchanges
    /\ \E r \in { process_multi_agent_query(registry, agent_cache, agents,
                                            query, context, env) } :
       LET call == [op |-> "process_multi_agent_query", query |-> query,
                    context |-> context,
                    agents_to_use |-> r.agents_to_use, ran |-> r.ran,
                    calls |-> r.calls, result |-> r.result,
                    synthesis |-> r.synthesis]
       IN  /\ \A i \in DOMAIN r.agents :
                 r.agents[i] # Collected
                 => Len(r.agents[i].conversation_history) <= MaxLog
           /\ registry' = r.registry
           /\ agent_cache' = r.agent_cache
           /\ agents' = Collect(r.agents, Live(r.agent_cache, call, given))
           /\ ret' = call
    /\ UNCHANGED << pureVars, ragVars, raceVars, given, overrides >>

MultiNext ==
    \/ \E query \in MultiQueries, context \in FactoryContexts, env \in MultiEnvs :
          ProcessMultiAgentQuery(query, context, env)
    \/ ClearAgentCache

SpecMulti == Init /\ [][MultiNext]_vars

(***************************************************************************)
(* Two threads in create_agent on the shared factory.  Nothing in          *)
(* create_agent holds a lock, and the constructor runs between the cache   *)
(* check and the cache store, so a thread can be preempted between them.   *)
(***************************************************************************)
\* the threads that are past the cache check and have yet to construct
Constructing == { t \in Threads : threads[t].pc = "constructing" }

\* create_agent(agent_id) up to and including the cache check
Lookup(t, agent_id) ==
    /\ threads[t].pc = "idle"
    /\ LET found == lookup_agent(registry, agent_cache, agent_id, NoConfig)
       IN  /\ found.agent = 0 =>
                Len(agents) + Cardinality(Constructing) < MaxAgents
           /\ registry' = found.registry
           /\ threads' =
                [threads EXCEPT ![t] =
                   IF found.agent # 0
                   THEN [pc |-> "returned", agent_id |-> agent_id,
                         agent |-> found.agent]
                   ELSE [pc |-> "constructing", agent_id |-> agent_id,
                         class |-> found.class,
                         config_ref |-> found.config_ref]]
    /\ UNCHANGED << pureVars, ragVars, agent_cache, agents, given, overrides, ret >>

\* the rest of create_agent after a cache miss
ConstructAndInsert(t) ==
    /\ threads[t].pc = "constructing"
    /\ LET made == construct_agent(agent_cache, agents, threads[t].class,
                                   threads[t].config_ref)
       IN  /\ agent_cache' = made.agent_cache
           /\ agents' = made.agents
           /\ threads' = [threads EXCEPT ![t] =
                            [pc |-> "returned",
                             agent_id |-> threads[t].agent_id,
                             agent |-> made.agent]]
    /\ UNCHANGED << pureVars, ragVars, registry, given, overrides, ret >>

\* the caller takes the instance and the thread is free for the next call
Return(t) ==
    /\ threads[t].pc = "returned"
    /\ threads' = [threads EXCEPT ![t] = Idle]
    /\ UNCHANGED << pureVars, ragVars, factoryVars >>

RaceNext ==
    \E t \in Threads :
       \/ \E agent_id \in AllIds : Lookup(t, agent_id)
       \/ ConstructAndInsert(t)
       \/ Return(t)

SpecRace == Init /\ [][RaceNext]_vars

(***************************************************************************)
(* rag_service.py: one RAGService and the users that index and search.     *)
(* The FAISS index is IndexFlatIP: a sequence of vectors, searched by      *)
(* inner product.  Vectors have one dimension here.  A position of the     *)
(* index is counted from 0, as FAISS counts it.                            *)
(***************************************************************************)
MaxDocs == 3
MaxChunks == 2
MaxClock == 1

UserIds == { "A", "B" }

\* the chunks the text splitter can produce
Chunks == { "invoice totals", "customer balances", "vendor bills" }

\* the searches put to the service
RagQueries == { "revenue", "spending" }

\* embedding_model.encode of a text
Embedding(text) ==
    CASE text = "invoice totals" -> 2
      [] text = "customer balances" -> 1
      [] text = "vendor bills" -> -1
      [] text = "revenue" -> 1
      [] text = "spending" -> -1

\* the score IndexFlatIP gives a stored vector for a query vector
InnerProduct(a, b) == a * b

\* f"{user_id}_{data_type}_{timestamp}_{i}"
DocId(user_id, data_type, timestamp, i) ==
    user_id \o "_" \o data_type \o "_" \o ToString(timestamp) \o "_" \o ToString(i)

\* the loop of add_financial_data over the chunks from chunk i on (i counts
\* from 0, as enumerate does)
RECURSIVE AddDocuments(_, _, _, _, _)
AddDocuments(service, user_id, data_type, documents, i) ==
    IF i >= Len(documents) THEN service
    ELSE LET content == documents[i + 1]
             index == Append(service.index, Embedding(content))
             doc_id == DocId(user_id, data_type, service.clock, i)
             ntotal == Len(index)
         IN  AddDocuments(
               [service EXCEPT
                  !.index = index,
                  !.document_store =
                      Store(@, doc_id,
                            [content |-> content, user_id |-> user_id,
                             data_type |-> data_type,
                             timestamp |-> service.clock]),
                  !.metadata_store = Store(@, ToString(ntotal - 1), doc_id),
                  !.indexed = @ \cup { << user_id, content >> }],
               user_id, data_type, documents, i + 1)

\* add_financial_data
add_financial_data(service, user_id, data_type, documents) ==
    AddDocuments(service, user_id, data_type, documents, 0)

\* the results index.search(query_embedding, top_k) can return: the
\* positions of the top_k best-scoring vectors, best first, in either order
\* where scores tie (fewer when the index is smaller: FAISS pads with -1,
\* where the loop of search_relevant_context stops)
SearchResults(index, query_embedding, top_k) ==
    LET n == Len(index)
        m == IF n < top_k THEN n ELSE top_k
        score(idx) == InnerProduct(index[idx + 1], query_embedding)
    IN  { hits \in [1..m -> 0..(n - 1)] :
            /\ \A i, j \in 1..m : i # j => hits[i] # hits[j]
            /\ \A i, j \in 1..m : i < j => score(hits[i]) >= score(hits[j])
            /\ \A i \in 1..m : \A idx \in 0..(n - 1) :
                  idx \notin Range(hits) => score(hits[i]) >= score(idx) }

\* the loop of a search that returns the documents of every user
RECURSIVE RelevantDocsUnfiltered(_, _, _, _, _)
RelevantDocsUnfiltered(service, query_embedding, user_id, hits, i) ==
    IF i > Len(hits) THEN << >>
    ELSE LET idx == hits[i]
             doc_id == Get(service.metadata_store, ToString(idx), None)
             rest == RelevantDocsUnfiltered(service, query_embedding, user_id,
                                            hits, i + 1)
         IN  IF doc_id # None /\ doc_id \in DOMAIN service.document_store
             THEN LET doc_data == service.document_store[doc_id]
                  IN  << [content |-> doc_data.content,
                          score |-> InnerProduct(service.index[idx + 1],
                                                 query_embedding),
                          data_type |-> doc_data.data_type,
                          timestamp |-> doc_data.timestamp] >> \o rest
             ELSE rest

\* the loop of search_relevant_context over the hits from hit i on
RECURSIVE RelevantDocs(_, _, _, _, _)
RelevantDocs(service, query_embedding, user_id, hits, i) ==
    IF i > Len(hits) THEN << >>
    ELSE LET idx == hits[i]
             doc_id == Get(service.metadata_store, ToString(idx), None)
             rest == RelevantDocs(service, query_embedding, user_id, hits, i + 1)
         IN  IF doc_id # None /\ doc_id \in DOMAIN service.document_store
             THEN LET doc_data == service.document_store[doc_id]
                  IN  IF doc_data.user_id = user_id
                      THEN << [content |-> doc_data.content,
                               score |-> InnerProduct(service.index[idx + 1],
                                                      query_embedding),
                               data_type |-> doc_data.data_type,
                               timestamp |-> doc_data.timestamp] >> \o rest
                      ELSE rest
             ELSE rest

\* search_relevant_context, for the hits the index search returned
search_relevant_context(service, query, user_id, hits) ==
    IF Len(service.index) = 0 THEN << >>
    ELSE RelevantDocs(service, Embedding(query), user_id, hits, 1)

\* rag_service.add_financial_data(user_id, data, data_type)
AddFinancialData(user_id, data_type, documents) ==
    /\ Len(rag.index) + Len(documents) <= MaxDocs
    /\ rag' = add_financial_data(rag, user_id, data_type, documents)
    /\ ret' = [op |-> "add_financial_data", user_id |-> user_id,
               data_type |-> data_type, documents |-> documents]
    /\ UNCHANGED << pureVars, raceVars, registry, agent_cache, agents, given,
                    overrides >>

\* rag_service.search_relevant_context(query, user_id, top_k)
SearchRelevantContext(query, user_id, top_k) ==
    /\ \E hits \in SearchResults(rag.index, Embedding(query), top_k) :
          ret' = [op |-> "search_relevant_context", query |-> query,
                  user_id |-> user_id, top_k |-> top_k, hits |-> hits,
                  docs |-> search_relevant_context(rag, query, user_id, hits)]
    /\ UNCHANGED << pureVars, raceVars, ragVars, registry, agent_cache, agents,
                    given, overrides >>

\* time passes between two calls of datetime.now()
Tick ==
    /\ rag.clock < MaxClock
    /\ rag' = [rag EXCEPT !.clock = @ + 1]
    /\ UNCHANGED << pureVars, raceVars, factoryVars >>

RagNext ==
    \/ \E user_id \in UserIds, data_type \in { "sales_invoices" },
          documents \in UNION { [1..n -> Chunks] : n \in 1..MaxChunks } :
          AddFinancialData(user_id, data_type, documents)
    \/ \E query \in RagQueries, user_id \in UserIds, top_k \in { 1, 2 } :
          SearchRelevantContext(query, user_id, top_k)
    \/ Tick

SpecRag == Init /\ [][RagNext]_vars

(***************************************************************************)
(* _extract_recommendations of the three classes, applied once to a        *)
(* narrative of at most MaxLines lines of NarrativeLines, or to one of the *)
(* longer narratives.                                                      *)
(***************************************************************************)
MaxLines == 2

NarrativeLines ==
    { "You should reduce overhead costs now.",
      "  We RECOMMEND automating invoice entry.  ",
      "Consider IT.",
      "should do this today",
      "should do this today!",
      "Revenue was flat over the last quarter.",
      "Boost the sales pipeline quickly.",
      "" }

\* seven lines that qualify for every class, among lines that do not
SevenQualifying ==
    << "Summary of the quarter:",
       "1. You should collect receivables sooner.",
       "2. We recommend a monthly cash review.",
       "ok",
       "3. Consider renegotiating the bank loan.",
       "4. I suggest a rolling twelve month plan.",
       "5. Improve the invoicing turnaround time.",
       "",
       "6. Optimize the payment terms offered.",
       "7. You should review pricing every year." >>

Narratives ==
    { JoinWith("\n", lines) :
        lines \in UNION { [1..n -> NarrativeLines] : n \in 0..MaxLines } }
    \cup { JoinWith("\n", SevenQualifying),
           JoinWith("\n", SubSeq(SevenQualifying, 1, 7)),
           JoinWith("\n", SubSeq(SevenQualifying, 1, 5)) }

ExtractInit ==
    /\ pq \in Narratives
    /\ pres = NoResult
    /\ registry = AGENT_CONFIGURATIONS
    /\ agent_cache = EmptyDict
    /\ agents = << >>
    /\ given = [a \in AllIds |-> 0]
    /\ overrides = 0
    /\ ret = NoResult
    /\ threads = [t \in Threads |-> Idle]
    /\ rag = NewRAGService

\* agent._extract_recommendations(narrative) on an agent of the class
DoExtract(class) ==
    /\ pres = NoResult
    /\ pres' = [op |-> "extract", arg |-> class,
                val |-> extract_recommendations(class, pq)]
    /\ UNCHANGED << pq, factoryVars, raceVars, ragVars >>

ExtractNext == \E class \in agent_classes : DoExtract(class)

SpecExtract == ExtractInit /\ [][ExtractNext]_vars

(***************************************************************************)
(* FinanceAgent._calculate_key_metrics, applied once to a bundle with at   *)
(* most MaxAccounts accounts.  A JSON number is [kind |-> "number", value] *)
(* and a JSON null is [kind |-> "null"]; amounts are whole.                *)
(***************************************************************************)
MaxAccounts == 2

Number(n) == [kind |-> "number", value |-> n]
Null == [kind |-> "null"]

\* the account types the totals are kept for
TotalledTypes == { "Asset", "Liability", "Equity", "Income", "Expense" }

\* the accounts QuickBooks can return
AccountPool ==
    { [AccountType |-> type, CurrentBalance |-> balance] :
        type \in TotalledTypes \cup { "Bank" },
        balance \in { Number(100), Number(40), Null } }
    \cup { [AccountType |-> type] : type \in TotalledTypes \cup { "Bank" } }
    \cup { [CurrentBalance |-> Number(40)], EmptyDict }

InvoiceLists ==
    { << >>,
      << [TotalAmt |-> Number(200), Balance |-> Number(50)] >>,
      << [TotalAmt |-> Number(200), Balance |-> Number(50)], [Balance |-> Number(0)] >> }

\* the bundles the metrics are computed from
Bundles ==
    LET lists == UNION { [1..n -> AccountPool] : n \in 0..MaxAccounts }
    IN  { [accounts |-> accounts] : accounts \in lists }
        \cup { [accounts |-> accounts, invoices |-> invoices] :
                 accounts \in { << >>,
                                << [AccountType |-> "Asset",
                                    CurrentBalance |-> Number(100)] >>,
                                << [AccountType |-> "Asset",
                                    CurrentBalance |-> Null] >> },
                 invoices \in InvoiceLists }
        \cup { [invoices |-> invoices] : invoices \in InvoiceLists }
        \cup { EmptyDict }

\* float(v) raises for a value that is not a number
FloatRaises(v) == v.kind # "number"

\* float(record.get(key, 0)) of a record whose value converts
FloatOf(record, key) == Get(record, key, Number(0)).value

\* the loop over the accounts from account i on, with every balance added
\* to the total of its type and balances of other types to the assets
RECURSIVE AccountTotalsLoose(_, _, _)
AccountTotalsLoose(accounts, i, account_totals) ==
    IF i > Len(accounts) THEN [raised |-> FALSE, totals |-> account_totals]
    ELSE LET account == accounts[i]
             acc_type == Get(account, "AccountType", "")
         IN  IF FloatRaises(Get(account, "CurrentBalance", Number(0)))
             THEN [raised |-> TRUE, totals |-> account_totals]
             ELSE AccountTotalsLoose(accounts, i + 1,
                    [account_totals EXCEPT
                       ![IF acc_type \in DOMAIN account_totals
                         THEN acc_type ELSE "Asset"] =
                           @ + FloatOf(account, "CurrentBalance")])

\* the loop of _calculate_key_metrics over the accounts from account i on
RECURSIVE AccountTotals(_, _, _)
AccountTotals(accounts, i, account_totals) ==
    IF i > Len(accounts) THEN [raised |-> FALSE, totals |-> account_totals]
    ELSE LET account == accounts[i]
             acc_type == Get(account, "AccountType", "")
         IN  IF FloatRaises(Get(account, "CurrentBalance", Number(0)))
             THEN [raised |-> TRUE, totals |-> account_totals]
             ELSE AccountTotals(accounts, i + 1,
                    IF acc_type \in DOMAIN account_totals
                    THEN [account_totals EXCEPT
                            ![acc_type] = @ + FloatOf(account, "CurrentBalance")]
                    ELSE account_totals)

\* sum(float(inv.get(key, 0)) for inv in invoices)
RECURSIVE SumOf(_, _)
SumOf(invoices, key) ==
    IF Len(invoices) = 0 THEN 0
    ELSE FloatOf(Head(invoices), key) + SumOf(Tail(invoices), key)

\* _calculate_key_metrics: one try around both blocks, so an exception in
\* the first block leaves the metrics empty; a quotient is the fraction
\* [num, den]
calculate_key_metrics(financial_data) ==
    LET has_accounts == "accounts" \in DOMAIN financial_data
        summed == IF has_accounts
                  THEN AccountTotals(financial_data.accounts, 1,
                                     [type \in TotalledTypes |-> 0])
                  ELSE [raised |-> FALSE, totals |-> EmptyDict]
        account_totals == summed.totals
        account_metrics ==
            IF has_accounts /\ ~summed.raised
            THEN [total_assets |-> account_totals["Asset"],
                  total_liabilities |-> account_totals["Liability"],
                  total_equity |-> account_totals["Equity"],
                  total_income |-> account_totals["Income"],
                  total_expenses |-> account_totals["Expense"],
                  net_income |-> account_totals["Income"] - account_totals["Expense"],
                  account_count |-> Len(financial_data.accounts)]
            ELSE EmptyDict
        has_invoices == "invoices" \in DOMAIN financial_data /\ ~summed.raised
        invoices == financial_data.invoices
        invoices_raise ==
            \E i \in DOMAIN invoices, key \in { "TotalAmt", "Balance" } :
               FloatRaises(Get(invoices[i], key, Number(0)))
        total_invoiced == SumOf(invoices, "TotalAmt")
        total_outstanding == SumOf(invoices, "Balance")
    IN  IF ~has_invoices \/ invoices_raise THEN account_metrics
        ELSE Update(account_metrics,
               [total_invoiced |-> total_invoiced,
                total_outstanding |-> total_outstanding,
                collection_rate |->
                   IF total_invoiced > 0
                   THEN [num |-> (total_invoiced - total_outstanding) * 100,
                         den |-> total_invoiced]
                   ELSE [num |-> 0, den |-> 1],
                invoice_count |-> Len(invoices)])

MetricsInit ==
    /\ pq \in Bundles
    /\ pres = NoResult
    /\ registry = AGENT_CONFIGURATIONS
    /\ agent_cache = EmptyDict
    /\ agents = << >>
    /\ given = [a \in AllIds |-> 0]
    /\ overrides = 0
    /\ ret = NoResult
    /\ threads = [t \in Threads |-> Idle]
    /\ rag = NewRAGService

\* agent._calculate_key_metrics(financial_data)
DoCalculateKeyMetrics ==
    /\ pres = NoResult
    /\ pres' = [op |-> "metrics", val |-> calculate_key_metrics(pq)]
    /\ UNCHANGED << pq, factoryVars, raceVars, ragVars >>

MetricsNext == DoCalculateKeyMetrics

SpecMetrics == MetricsInit /\ [][MetricsNext]_vars

(***************************************************************************)
(* Properties.                                                             *)
(***************************************************************************)

\* C1: for each of the three agent classes and every query, a process_query
\* call whose context lacks the access token or the realm id calls neither
\* the accounting-data client nor the RAG client nor the LLM client, and
\* leaves the agent's conversation log as it was.
C1_NoAccessCallsNothing ==
    [][ (ret'.op = "process_query" /\ LacksAccess(ret'.context))
        => (ret'.calls = << >> /\ agents' = agents) ]_vars

\* a refused call on an agent whose log already holds an exchange
C1_Witness ==
    /\ ret.op = "process_query"
    /\ LacksAccess(ret.context)
    /\ Len(agents[ret.agent].conversation_history) = 1

DeclaredOrder == << "finance", "sales", "operations", "executive" >>

\* the number of keywords of agent a that occur in the lower-cased query
KeywordHits(a, query) ==
    Cardinality({ i \in DOMAIN RouteKeywords(a) :
                    Contains(Lower(query), RouteKeywords(a)[i]) })

\* the agents whose count is the highest
TopAgents(query) ==
    { a \in AgentIds :
        \A b \in AgentIds : KeywordHits(b, query) <= KeywordHits(a, query) }

\* the first of a set of agents in the declared order
FirstDeclared(as) ==
    DeclaredOrder[CHOOSE i \in DOMAIN DeclaredOrder :
                    /\ DeclaredOrder[i] \in as
                    /\ \A j \in 1..(i - 1) : DeclaredOrder[j] \notin as]

\* C3: route(query) is the agent with the highest count of keywords that
\* occur in the lower-cased query, the first in the declared order among
\* those that tie, and finance when every count is zero; it is always one
\* of the four ids.
C3_RouteIsFirstHighest ==
    pres.op = "route"
    => /\ pres.val \in { "finance", "sales", "operations", "executive" }
       /\ pres.val =
            IF \A a \in AgentIds : KeywordHits(a, pq) = 0 THEN "finance"
            ELSE FirstDeclared(TopAgents(pq))

\* a routed query on which two agents tie with a positive count
C3_Witness ==
    /\ pres.op = "route"
    /\ Cardinality(TopAgents(pq)) > 1
    /\ \E a \in AgentIds : KeywordHits(a, pq) > 0
    /\ pres.val = FirstDeclared(TopAgents(pq))

\* C4: with no clear_agent_cache in between, a create_agent call returns
\* the instance the previous create_agent call for the same id returned,
\* whatever config it is passed; the first create_agent call for a class
\* after clear_agent_cache returns an instance that did not exist before,
\* with an empty conversation log.
C4_CacheIdentity ==
    [][ ret'.op = "create_agent"
        => /\ given[ret'.agent_id] # 0 => ret'.agent = given[ret'.agent_id]
           /\ (\A a \in AllIds :
                  ClassOf(a) = ClassOf(ret'.agent_id) => given[a] = 0)
              => /\ ret'.agent \notin DOMAIN agents
                 /\ agents'[ret'.agent].conversation_history = << >> ]_vars

\* a create_agent call with a config has returned the cached instance, and
\* that instance was constructed after a clear_agent_cache
C4_Witness ==
    /\ ret.op = "create_agent"
    /\ ret.config # NoConfig
    /\ ~ret.created
    /\ ret.agent > 1
    /\ agents[1] = Collected

\* C5: a create_agent call with a config that hits the cache leaves the
\* configuration held by the cached instance as it was before the call.
C5_CacheHitKeepsConfig ==
    [][ (ret'.op = "create_agent" /\ ~ret'.created /\ ret'.config # NoConfig)
        => ConfigOf(registry', agents'[ret'.agent])
           = ConfigOf(registry, agents[ret'.agent]) ]_vars

\* C6: the registry always equals the descriptors loaded at process start.
C6_RegistryNeverMutated == registry = AGENT_CONFIGURATIONS

\* C7: when create_agent calls run concurrently, at most one instance is
\* constructed per cache key, callers of the same id receive the same
\* instance, and the cache holds the instance a caller was given.
C7_AtMostOneInstance ==
    /\ \A i, j \in DOMAIN agents : agents[i].class = agents[j].class => i = j
    /\ \A t, u \in Threads :
          (threads[t].pc = "returned" /\ threads[u].pc = "returned"
           /\ threads[t].agent_id = threads[u].agent_id)
          => threads[t].agent = threads[u].agent
    /\ \A t \in Threads :
          threads[t].pc = "returned"
          => agent_cache[ClassOf(threads[t].agent_id)] = threads[t].agent

\* the ids that have no pipeline class
Unregistered == AllIds \ { "finance", "sales", "operations" }

\* C8: for an id without a pipeline class, create_agent returns an instance
\* of the finance class, the one create_agent("finance") returns, and that
\* instance answers a query with the data types finance's keyword map
\* gives for it, {accounts} when no keyword matches.
C8_FallbackIsFinance ==
    \A a \in Unregistered :
       given[a] # 0
       => /\ agents[given[a]].class = "finance"
          /\ agent_cache["finance"] = given[a]
          /\ given["finance"] \in { 0, given[a] }
          /\ (ret.op = "process_query" /\ ret.agent = given[a]
              /\ ~LacksAccess(ret.context))
             => /\ ret.data_requirements
                   = analyze_query_requirements("finance", ret.query)
                /\ (\A m \in KeywordMapping("finance") :
                       ~Contains(Lower(ret.query), m[1]))
                   => ret.data_requirements = { "accounts" }

\* the instance given for an unknown id, which is also the one given for
\* "finance", has answered a query without finance keywords
C8_Witness ==
    /\ given["unknown"] # 0
    /\ given["finance"] = given["unknown"]
    /\ ret.op = "process_query"
    /\ ret.agent = given["unknown"]
    /\ ret.query = "hello"
    /\ ret.data_requirements = { "accounts" }
    /\ ret.calls = << "qb.query_accounts", "llm.grok" >>

\* C9: get_best_agent(query) returns the instance cached for route(query)
\* when validate(route(query), query) recommends it, and the instance
\* cached for finance when it does not.
C9_BestAgent ==
    ret.op = "get_best_agent"
    => LET routed == Route(ret.query)
           validation == validate_agent_request(registry, routed, ret.query)
       IN  IF validation.recommended
           THEN ret.agent = Get(agent_cache, ClassOf(routed), 0)
           ELSE /\ ret.agent = Get(agent_cache, "finance", 0)
                /\ agents[ret.agent].class = "finance"

\* get_best_agent has answered a query routed to operations, which validate
\* does not recommend, with the finance instance
C9_Witness ==
    /\ ret.op = "get_best_agent"
    /\ Route(ret.query) = "operations"
    /\ ~validate_agent_request(registry, "operations", ret.query).recommended
    /\ "operations" \in DOMAIN agent_cache
    /\ ret.agent = agent_cache["finance"]
    /\ ret.agent # agent_cache["operations"]

\* C10 (as amended): validate("finance", "what is my cash flow this month")
\* returns confidence 0.25 and recommended = false.
C10_CashFlowConfidence ==
    (pres.op = "validate" /\ pres.arg = "finance" /\ pq = CashFlowQuery)
    => /\ 4 * pres.val.confidence.num = pres.val.confidence.den
       /\ pres.val.recommended = FALSE

\* C10 as stated: the confidence exceeds 0.3 and recommended is true
C10_AsStated ==
    (pres.op = "validate" /\ pres.arg = "finance" /\ pq = CashFlowQuery)
    => /\ 10 * pres.val.confidence.num > 3 * pres.val.confidence.den
       /\ pres.val.recommended = TRUE

\* validate has been applied to finance and the cash flow query
C10_Witness ==
    /\ pres.op = "validate"
    /\ pres.arg = "finance"
    /\ pq = CashFlowQuery
    /\ pres.val.valid

\* the query contains a broad-scope word
BroadScope(query) ==
    \E i \in DOMAIN BroadScopeWords : Contains(Lower(query), BroadScopeWords[i])

\* C11: for every query whose lower-cased text contains a broad-scope word,
\* process_multi_agent_query runs exactly the agents finance, sales and
\* operations, each once and in that order, each on an instance of its own
\* class, whatever route(query) is.
C11_BroadScopeRunsThree ==
    (ret.op = "process_multi_agent_query" /\ BroadScope(ret.query))
    => /\ [i \in DOMAIN ret.ran |-> ret.ran[i].id]
          = << "finance", "sales", "operations" >>
       /\ \A i \in DOMAIN ret.ran : agents[ret.ran[i].agent].class = ret.ran[i].id
       /\ DOMAIN ret.result.multi_agent_results = { "finance", "sales", "operations" }

\* a query that is broad only through the "all" inside "small", and that
\* route sends to sales, has been answered by the three agents
C11_Witness ==
    /\ ret.op = "process_multi_agent_query"
    /\ ret.query = "small customer cost"
    /\ Route(ret.query) = "sales"
    /\ Len(ret.ran) = 3
    /\ ret.result.insights.agents_used = << "finance", "sales", "operations" >>

\* the steps of process_query whose exception reaches the outer handler
Fatal == { "rag_index", "llm" }

\* the message of the exception that reached the outer handler
FatalMessage(call) ==
    IF "rag_index" \in Range(call.raised) THEN RagFailure ELSE call.env.llm.message

\* the result is the one of the outer handler for the message
IsApology(class, result, message) ==
    /\ DOMAIN result = { "response", "charts", "insights", "error", DataKey(class) }
    /\ result.response = ApologyResponse(class)
    /\ result.charts = << >>
    /\ result[DataKey(class)] = EmptyDict
    /\ result.error = message

\* C12 (as amended): process_query of every class returns a result for every
\* outcome of its collaborators.  When the RAG indexing or the LLM call
\* raises, the result is the apology narrative with empty charts, an empty
\* data map and the exception's message as error, and the log is not
\* written.  An exception in the fetch, the RAG search, the chart
\* generation or the metrics is handled inside that step: the pipeline goes
\* on and, unless a later step raises, the result carries no error.
C12_ErrorsBecomeResults ==
    (ret.op = "process_query" /\ ~LacksAccess(ret.context))
    => LET class == agents[ret.agent].class
       IN  /\ "response" \in DOMAIN ret.result
           /\ (Range(ret.raised) \cap Fatal # {})
              => IsApology(class, ret.result, FatalMessage(ret))
           /\ (Range(ret.raised) \cap Fatal = {})
              => "error" \notin DOMAIN ret.result

\* C12 as stated: an exception raised in any step after the credential
\* check yields the apology result
C12_AsStated ==
    (ret.op = "process_query" /\ ~LacksAccess(ret.context) /\ ret.raised # << >>)
    => \E message \in { RagFailure, LLMFail.message } :
          IsApology(agents[ret.agent].class, ret.result, message)

\* a fetch that raised was followed by an LLM call that raised, and the
\* caller got the apology result with the LLM's message
C12_Witness ==
    /\ ret.op = "process_query"
    /\ ret.raised = << "fetch", "llm" >>
    /\ ret.result.error = LLMFail.message
    /\ agents[ret.agent].conversation_history = << >>

\* the result has a response and it is not None
HasNarrative(result) ==
    /\ "response" \in DOMAIN result
    /\ result.response # None

\* C13: every result process_multi_agent_query returns, and every result of
\* the specialists' process_query calls it made, has a response field that
\* is not None, also when error is set and when the LLM reply was parsed as
\* JSON.
C13_ResponseNeverNull ==
    ret.op = "process_multi_agent_query"
    => /\ HasNarrative(ret.result)
       /\ \A id \in DOMAIN Get(ret.result, "multi_agent_results", EmptyDict) :
             HasNarrative(ret.result.multi_agent_results[id])

\* the score of the best document in the index that user_id indexed, for
\* the query (-100 when there is none)
BestScoreOf(user_id, query) ==
    LET scores ==
          { InnerProduct(rag.index[idx + 1], Embedding(query)) :
              idx \in { i \in 0..(Len(rag.index) - 1) :
                          rag.document_store[rag.metadata_store[ToString(i)]].user_id
                          = user_id } }
    IN  IF scores = {} THEN -100
        ELSE CHOOSE s \in scores : \A t \in scores : t <= s

\* C14: after any sequence of add_financial_data calls by users A and B,
\* search_relevant_context(query, user_id) returns only documents that the
\* same user_id indexed, also when a document of the other user scores
\* higher than every document of the searching user.
C14_SearchScopedToUser ==
    ret.op = "search_relevant_context"
    => \A i \in DOMAIN ret.docs :
          /\ << ret.user_id, ret.docs[i].content >> \in rag.indexed
          /\ \E doc_id \in DOMAIN rag.document_store :
                /\ rag.document_store[doc_id].user_id = ret.user_id
                /\ rag.document_store[doc_id].content = ret.docs[i].content

\* A has searched, a document of B that A never indexed scored higher than
\* every document of A and was among the hits, and A got a document back
C14_Witness ==
    /\ ret.op = "search_relevant_context"
    /\ ret.user_id = "A"
    /\ ret.top_k = 2
    /\ Len(ret.docs) = 1
    /\ BestScoreOf("B", ret.query) > BestScoreOf("A", ret.query)
    /\ \E c \in Chunks :
          /\ << "B", c >> \in rag.indexed
          /\ << "A", c >> \notin rag.indexed
          /\ InnerProduct(Embedding(c), Embedding(ret.query)) > ret.docs[1].score

\* the line, trimmed, contains a marker of the class in any letter case and
\* is longer than 20 characters
Qualifies(class, line) ==
    /\ Len(Strip(line)) > 20
    /\ \E marker \in Indicators(class) : Contains(Lower(Strip(line)), marker)

\* the positions of the qualifying lines of a narrative
QualifyingPositions(class, text) ==
    { i \in DOMAIN SplitLines(text) : Qualifies(class, SplitLines(text)[i]) }

\* the position of the n-th qualifying line
NthQualifying(class, text, n) ==
    CHOOSE i \in QualifyingPositions(class, text) :
       Cardinality({ k \in QualifyingPositions(class, text) : k < i }) = n - 1

\* C15: _extract_recommendations returns, trimmed and in their original
\* order, the first five lines of the narrative that after trimming contain
\* a marker as a case-insensitive substring and are longer than 20
\* characters; all of them when there are fewer than five.
C15_FirstFiveQualifying ==
    pres.op = "extract"
    => LET count == Cardinality(QualifyingPositions(pres.arg, pq))
       IN  /\ Len(pres.val) = IF count < 5 THEN count ELSE 5
           /\ \A n \in DOMAIN pres.val :
                 pres.val[n]
                 = Strip(SplitLines(pq)[NthQualifying(pres.arg, pq, n)])

\* the extraction has been applied to a narrative with seven qualifying
\* lines and returned the first five
C15_Witness ==
    /\ pres.op = "extract"
    /\ Cardinality(QualifyingPositions(pres.arg, pq)) = 7
    /\ pres.val = << SevenQualifying[2], SevenQualifying[3], SevenQualifying[5],
                     SevenQualifying[6], SevenQualifying[7] >>

\* the name an agent id is shown under: the id with a capital first letter
AgentName(agent_id) ==
    CASE agent_id = "finance" -> "Finance"
      [] agent_id = "sales" -> "Sales"
      [] agent_id = "operations" -> "Operations"
      [] agent_id = "executive" -> "Executive"

\* the recommendations of the runs from run i on that ended without an
\* error, each with the agent's name in brackets before it, in run order
RECURSIVE SuccessfulRecommendations(_, _)
SuccessfulRecommendations(call, i) ==
    IF i > Len(call.ran) THEN << >>
    ELSE LET agent_id == call.ran[i].id
             result == call.result.multi_agent_results[agent_id]
             recs == Get(result, "recommendations", << >>)
         IN  (IF "error" \in DOMAIN result THEN << >>
              ELSE [n \in DOMAIN recs |->
                      "[" \o AgentName(agent_id) \o "] " \o recs[n]])
             \o SuccessfulRecommendations(call, i + 1)

\* C16: the recommendations of a synthesized result are the first 10
\* entries of the concatenation, in agent run order, of the recommendations
\* of every agent whose result has no error, each prefixed with the agent's
\* name (its id with a capital first letter) in brackets; agents whose
\* result has an error contribute nothing.
C16_FirstTenInRunOrder ==
    (ret.op = "process_multi_agent_query"
     /\ "multi_agent_results" \in DOMAIN ret.result)
    => LET all == SuccessfulRecommendations(ret, 1)
       IN  ret.result.recommendations
           = [n \in 1..(IF Len(all) < 10 THEN Len(all) ELSE 10) |-> all[n]]

\* three agents ran and each returned five recommendations: the synthesized
\* list holds finance's five and then sales's five
C16_Witness ==
    /\ ret.op = "process_multi_agent_query"
    /\ Len(ret.ran) = 3
    /\ \A id \in { "finance", "sales", "operations" } :
          /\ "error" \notin DOMAIN ret.result.multi_agent_results[id]
          /\ Len(ret.result.multi_agent_results[id].recommendations) = 5
    /\ Len(ret.result.recommendations) = 10
    /\ ret.result.recommendations[6] = "[Sales] " \o FiveRecommendations[1]
    /\ ret.result.recommendations[10] = "[Sales] " \o FiveRecommendations[5]

\* the middle agent of three failed and the other two contributed
C16_WitnessError ==
    /\ ret.op = "process_multi_agent_query"
    /\ Len(ret.ran) = 3
    /\ "error" \in DOMAIN ret.result.multi_agent_results["sales"]
    /\ "error" \notin DOMAIN ret.result.multi_agent_results["operations"]
    /\ Len(ret.result.recommendations) = 10
    /\ ret.result.recommendations[6] = "[Operations] " \o FiveRecommendations[1]

\* the balance of an account: CurrentBalance, 0 when the account has none
BalanceOrZero(account) ==
    IF "CurrentBalance" \in DOMAIN account THEN account.CurrentBalance.value ELSE 0

\* the sum of the balances of the accounts at the positions
RECURSIVE SumAt(_, _)
SumAt(accounts, positions) ==
    IF positions = {} THEN 0
    ELSE LET i == CHOOSE j \in positions : TRUE
         IN  BalanceOrZero(accounts[i]) + SumAt(accounts, positions \ { i })

\* the sum of the balances of the accounts whose AccountType is exactly type
TotalOfType(accounts, type) ==
    SumAt(accounts,
          { i \in DOMAIN accounts :
              "AccountType" \in DOMAIN accounts[i] /\ accounts[i].AccountType = type })

\* every balance that is present is a number
BalancesAreNumbers(accounts) ==
    \A i \in DOMAIN accounts :
       "CurrentBalance" \in DOMAIN accounts[i]
       => accounts[i].CurrentBalance.kind = "number"

C17_WitnessIgnored ==
    /\ pres.op = "metrics"
    /\ pq = [accounts |->
               << [AccountType |-> "Bank", CurrentBalance |-> Number(100)],
                  [AccountType |-> "Income"] >>]
    /\ \A key \in { "total_assets", "total_liabilities", "total_equity",
                    "total_income", "total_expenses", "net_income" } :
          pres.val[key] = 0

\* the capability phrases of a registered agent, lower-cased and split
PhrasesOf(agent_id) ==
    [i \in DOMAIN registry[agent_id].capabilities |->
       Split(Lower(registry[agent_id].capabilities[i]))]

\* the words of the phrases, place by place, that occur in the lower-cased
\* query: a word that stands in several phrases is counted at every place
WordPlacesFound(agent_id, query) ==
    { place \in UNION { { << i, j >> : j \in DOMAIN PhrasesOf(agent_id)[i] } :
                          i \in DOMAIN PhrasesOf(agent_id) } :
        Contains(Lower(query), PhrasesOf(agent_id)[place[1]][place[2]]) }

\* the distinct words of the phrases that occur in the lower-cased query
DistinctWordsFound(agent_id, query) ==
    { word \in UNION { Range(PhrasesOf(agent_id)[i]) :
                         i \in DOMAIN PhrasesOf(agent_id) } :
        Contains(Lower(query), word) }

\* the fraction equals min(1, count / n)
IsClampedRatio(fraction, count, n) ==
    fraction.num * n = (IF count > n THEN n ELSE count) * fraction.den

\* C18 (as amended): for a registered agent id, validate(agentId,
\* query).confidence equals min(1, S / N), where S counts the words of the
\* agent's lower-cased capability phrases that occur as substrings of the
\* lower-cased query, a word once for every place it has in the phrases, and
\* N is the number of phrases; recommended is true exactly when
\* confidence > 0.3.
C18_ConfidenceCountsPlaces ==
    (pres.op = "validate" /\ pres.arg \in AgentIds)
    => /\ pres.val.valid
       /\ IsClampedRatio(pres.val.confidence,
                         Cardinality(WordPlacesFound(pres.arg, pq)),
                         Len(registry[pres.arg].capabilities))
       /\ pres.val.recommended
          <=> 10 * pres.val.confidence.num > 3 * pres.val.confidence.den

\* C18 as stated: a word shared by several phrases counts once
C18_AsStated ==
    (pres.op = "validate" /\ pres.arg \in AgentIds)
    => /\ pres.val.valid
       /\ IsClampedRatio(pres.val.confidence,
                         Cardinality(DistinctWordsFound(pres.arg, pq)),
                         Len(registry[pres.arg].capabilities))
       /\ pres.val.recommended
          <=> 10 * pres.val.confidence.num > 3 * pres.val.confidence.den

\* validate("sales", "customer Revenue"): "customer" stands in two phrases
\* and "revenue" in one, so the confidence is 3/8 and sales is recommended
C18_Witness ==
    /\ pres.op = "validate"
    /\ pres.arg = "sales"
    /\ pq = "customer Revenue"
    /\ Cardinality(DistinctWordsFound("sales", pq)) = 2
    /\ pres.val.confidence = [num |-> 3, den |-> 8]
    /\ pres.val.recommended

\* validate("sales", ...) on a query with 12 word places found: the
\* confidence is clamped to 1
C18_WitnessClamped ==
    /\ pres.op = "validate"
    /\ pres.arg = "sales"
    /\ Cardinality(WordPlacesFound("sales", pq)) = 12
    /\ pres.val.confidence = [num |-> 8, den |-> 8]

C19_WitnessSecondary ==
    /\ ret.op = "process_multi_agent_query"
    /\ ret.query = "customer cash balance"
    /\ [i \in DOMAIN ret.ran |-> ret.ran[i].id] = << "finance", "sales" >>
    /\ ret.result.response = SynthesisText

\* "strategy" is routed to executive, which has no class of its own: the
\* finance class answered under the id executive, alone
C19_WitnessExecutive ==
    /\ ret.op = "process_multi_agent_query"
    /\ ret.query = "strategy"
    /\ Len(ret.ran) = 1
    /\ ret.ran[1].id = "executive"
    /\ agents[ret.ran[1].agent].class = "finance"

\* the QuickBooksService method the fetch step of a class calls for a type
MethodFor(class, type) ==
    FetchPlan(class)[CHOOSE i \in DOMAIN FetchPlan(class) :
                       FetchPlan(class)[i][1] = type][2]

\* the required data types whose fetch raises: the method raises, or
\* QuickBooksService has no such method
FailingTypes(class, requirements, env) ==
    { type \in requirements :
        \/ MethodFor(class, type) \in env.qb_fail
        \/ MethodFor(class, type) \notin QuickBooksMethods }

\* C20: in the fetch step of every class, when the fetch of one required
\* data type fails and no other step does, only that type's key is missing
\* from the bundle: every other required type is in it, whatever the order
\* of the fetches, the LLM is called, and the result has no error.
C20_OnlyFailedKeyMissing ==
    (/\ ret.op = "process_query"
     /\ ~LacksAccess(ret.context)
     /\ Range(ret.raised) = { "fetch" }
     /\ Cardinality(FailingTypes(agents[ret.agent].class,
                                 ret.data_requirements, ret.env)) = 1)
    => LET class == agents[ret.agent].class
       IN  /\ DOMAIN ret.result[DataKey(class)]
              = ret.data_requirements
                \ FailingTypes(class, ret.data_requirements, ret.env)
           /\ \E n \in DOMAIN ret.calls : ret.calls[n] \in { "llm.grok", "llm.claude" }
           /\ "error" \notin DOMAIN ret.result

\* C21: when every QuickBooks request is answered, the bundle of an
\* operations agent has a key for each data type the query requires; a
\* query that matches no operations keyword gives the keys expenses and
\* vendors.
C21_OperationsBundleComplete ==
    (/\ ret.op = "process_query"
     /\ agents[ret.agent].class = "operations"
     /\ ~LacksAccess(ret.context)
     /\ ret.env.qb_fail = {}
     /\ ret.env.rag_add = "ok"
     /\ ret.env.llm.kind # "fail")
    => /\ DOMAIN ret.result["operations_data"] = ret.data_requirements
       /\ ret.query = "hello"
          => DOMAIN ret.result["operations_data"] = { "expenses", "vendors" }

\* C22: when the LLM reply is not structured output, the recommendations
\* of the result are the heuristic extraction over the reply text (so a
\* narrative with a qualifying line gives a non-empty list); when the reply
\* is structured, a class that reads the fields takes them from the reply.
C22_NarrativeRecommendations ==
    (/\ ret.op = "process_query"
     /\ ~LacksAccess(ret.context)
     /\ "error" \notin DOMAIN ret.result)
    => LET class == agents[ret.agent].class
           llm == ret.env.llm
       IN  /\ llm.kind = "text"
              => /\ ret.result.recommendations
                    = Recommendations(class, llm.content)
                 /\ Recommendations(class, llm.content) # << >>
                    => ret.result.recommendations # << >>
           /\ (llm.kind = "json" /\ class # "finance")
              => ret.result.recommendations
                 = Get(llm.parsed, "recommendations", << >>)

\* the raw data bundle in the result of the agent that ran i-th
BundleOf(call, i) ==
    LET class == ClassOf(call.ran[i].id)
    IN  Get(call.ran[i].result, DataKey(class), EmptyDict)

\* the runs of a call that returned a result without an error
SuccessfulRuns(call) ==
    { i \in DOMAIN call.ran : "error" \notin DOMAIN call.ran[i].result }

\* C23: the raw data map of a synthesized result is the merge, in run
\* order, of the bundles of the agents that succeeded: every key a
\* successful agent fetched is in the map, with the value of the last
\* successful agent that fetched it.
C23_RawDataMerged ==
    (/\ ret.op = "process_multi_agent_query"
     /\ "multi_agent_results" \in DOMAIN ret.result)
    => \A i \in SuccessfulRuns(ret) :
          \A key \in DOMAIN BundleOf(ret, i) :
             /\ key \in DOMAIN ret.result.financial_data
             /\ LET last == CHOOSE j \in SuccessfulRuns(ret) :
                               /\ key \in DOMAIN BundleOf(ret, j)
                               /\ \A k \in SuccessfulRuns(ret) :
                                     key \in DOMAIN BundleOf(ret, k) => k <= j
                IN  Get(ret.result.financial_data, key, None)
                    = BundleOf(ret, last)[key]

\* the narratives of the runs from run i on that ended without an error and
\* with a narrative, each under the heading of its agent, in run order
RECURSIVE HeadedNarratives(_, _)
HeadedNarratives(call, i) ==
    IF i > Len(call.ran) THEN << >>
    ELSE LET agent_id == call.ran[i].id
             result == call.ran[i].result
             narrative == Get(result, "response", "")
         IN  (IF "error" \in DOMAIN result \/ Falsy(narrative) THEN << >>
              ELSE << "**" \o AgentName(agent_id) \o " Analysis:**\n"
                      \o narrative >>)
             \o HeadedNarratives(call, i + 1)

\* the concatenation of the parts, a blank line between two of them
RECURSIVE Concatenation(_)
Concatenation(parts) ==
    IF Len(parts) = 0 THEN ""
    ELSE Head(parts)
         \o (IF Len(parts) = 1 THEN "" ELSE "\n\n" \o Concatenation(Tail(parts)))

\* the calls of a sequence that are the synthesis LLM call
SynthesisCalls(calls) ==
    { n \in DOMAIN calls : calls[n] = "llm.claude_synthesis" }

\* C24: a synthesis makes exactly one executive-summary LLM call.  When the
\* call fails, the response is the concatenation of the headed narratives
\* of the agents that succeeded, the result has no error, and it still
\* carries charts, insights of analysis type multi_agent_synthesis,
\* recommendations and the map of the agents' results.
C24_SynthesisFallback ==
    (/\ ret.op = "process_multi_agent_query"
     /\ "multi_agent_results" \in DOMAIN ret.result)
    => /\ Cardinality(SynthesisCalls(ret.calls)) = 1
       /\ ret.synthesis = "fail"
          => /\ ret.result.response = Concatenation(HeadedNarratives(ret, 1))
             /\ "error" \notin DOMAIN ret.result
             /\ { "charts", "insights", "recommendations" } \subseteq DOMAIN ret.result
             /\ ret.result.insights.analysis_type = "multi_agent_synthesis"
             /\ DOMAIN ret.result.multi_agent_results
                = { ret.ran[i].id : i \in DOMAIN ret.ran }
             /\ \A i \in DOMAIN ret.ran :
                   ret.result.multi_agent_results[ret.ran[i].id] = ret.ran[i].result

\* the summary call failed after three agents had answered: the response is
\* the three headed narratives
C24_Witness ==
    /\ ret.op = "process_multi_agent_query"
    /\ ret.synthesis = "fail"
    /\ Len(ret.ran) = 3
    /\ Len(HeadedNarratives(ret, 1)) = 3
    /\ ret.result.response
       = "**Finance Analysis:**\n" \o NarrativeText
         \o "\n\n**Sales Analysis:**\n" \o NarrativeText
         \o "\n\n**Operations Analysis:**\n" \o NarrativeText
    /\ ret.result.charts # << >>

\* the summary call failed after every agent had failed: the response is
\* the empty concatenation
C24_WitnessNoNarrative ==
    /\ ret.op = "process_multi_agent_query"
    /\ ret.synthesis = "fail"
    /\ Len(ret.ran) > 1
    /\ HeadedNarratives(ret, 1) = << >>
    /\ ret.result.response = ""

\* the runs of a call whose agent raised: the entry is the loop handler's
RaisedRuns(call) ==
    { i \in DOMAIN call.ran :
        call.ran[i].result = RaisedResult(call.ran[i].id, EscapeMessage) }

\* C25: when the run of a selected agent raises, its entry in the result
\* map holds a response and an error, the agents selected after it are run
\* all the same, in order, and the result map has exactly one entry for
\* each selected agent id.
C25_RaisedAgentIsolated ==
    ret.op = "process_multi_agent_query"
    => /\ [i \in DOMAIN ret.ran |-> ret.ran[i].id] = ret.agents_to_use
       /\ \A i \in RaisedRuns(ret) :
             { "response", "error" } \subseteq DOMAIN ret.ran[i].result
       /\ \A i, j \in DOMAIN ret.ran : ret.ran[i].id = ret.ran[j].id => i = j
       /\ "multi_agent_results" \in DOMAIN ret.result
          => /\ DOMAIN ret.result.multi_agent_results
                = { ret.agents_to_use[i] : i \in DOMAIN ret.agents_to_use }
             /\ \A i \in DOMAIN ret.ran :
                   ret.result.multi_agent_results[ret.ran[i].id]
                   = ret.ran[i].result
       /\ "multi_agent_results" \notin DOMAIN ret.result
          => /\ Len(ret.ran) = 1
             /\ ret.result = ret.ran[1].result

\* the second of three agents raised, and the third was run and answered
C25_Witness ==
    /\ ret.op = "process_multi_agent_query"
    /\ ret.agents_to_use = << "finance", "sales", "operations" >>
    /\ RaisedRuns(ret) = { 2 }
    /\ ret.result.multi_agent_results["sales"].error = EscapeMessage
    /\ ret.result.multi_agent_results["sales"].response
       = "Error processing with sales agent"
    /\ "error" \notin DOMAIN ret.result.multi_agent_results["operations"]
    /\ \E n \in DOMAIN ret.ran[3].calls : ret.ran[3].calls[n] = "llm.claude"

\* the only selected agent raised: the call returns the handler's entry
C25_WitnessAlone ==
    /\ ret.op = "process_multi_agent_query"
    /\ ret.agents_to_use = << "sales" >>
    /\ ret.result = RaisedResult("sales", EscapeMessage)

\* C26: the conversation log of an instance is append-only.  A call of
\* process_query that returns a result without an error adds exactly one
\* entry, for its query, at the end of the log; a call that returns the
\* no-access result or a pipeline-error result leaves the log as it was;
\* the entries already there stay as they are, so the entries are in call
\* order.
C26_LogAppendOnly ==
    [][ret'.op = "process_query"
       => LET old == agents[ret'.agent].conversation_history
              new == agents'[ret'.agent].conversation_history
          IN  /\ Len(new) >= Len(old)
              /\ \A n \in DOMAIN old : new[n] = old[n]
              /\ "error" \in DOMAIN ret'.result => new = old
              /\ "error" \notin DOMAIN ret'.result
                 => /\ Len(new) = Len(old) + 1
                    /\ new[Len(new)].query = ret'.query
              /\ \A i \in DOMAIN agents :
                    i # ret'.agent => agents'[i] = agents[i]]_vars

\* two calls were answered and logged in their order, and a third call,
\* which ended in an error, left the two entries as they were
C26_Witness ==
    /\ ret.op = "process_query"
    /\ "error" \in DOMAIN ret.result
    /\ Len(agents[ret.agent].conversation_history) = 2
    /\ agents[ret.agent].conversation_history[1].query = "vendor cost"
    /\ agents[ret.agent].conversation_history[2].query = "hello"
    /\ ret.query = "vendor cost"

\* the third call was refused for want of access
C26_WitnessRefused ==
    /\ ret.op = "process_query"
    /\ LacksAccess(ret.context)
    /\ Len(agents[ret.agent].conversation_history) = 2

\* the places of a call in a sequence of calls or steps
PlacesOf(seq, names) == { n \in DOMAIN seq : seq[n] \in names }

LLMCallNames == { "llm.grok", "llm.claude" }

\* the steps of process_query that come before the LLM call
StepsBeforeLLM == { "fetch", "rag_index", "rag_search", "charts" }

\* C27: a call of process_query that passes the credential check invokes
\* the LLM client at most once, and exactly once when no earlier step
\* raised.  Every QuickBooks fetch and every RAG call of the call comes
\* before the invocation, and the metrics computation and the log append
\* come after it, and only when it returned.
C27_LLMOnceInOrder ==
    (ret.op = "process_query" /\ ~LacksAccess(ret.context))
    => LET llm_calls == PlacesOf(ret.calls, LLMCallNames)
           llm_steps == PlacesOf(ret.steps, { "llm" })
           class == agents[ret.agent].class
       IN  /\ Cardinality(llm_calls) <= 1
           /\ Cardinality(llm_steps) = Cardinality(llm_calls)
           /\ Range(ret.raised) \cap StepsBeforeLLM = {}
              => Cardinality(llm_calls) = 1
           /\ \A n \in llm_calls : \A m \in DOMAIN ret.calls :
                 ret.calls[m] \notin LLMCallNames => m < n
           /\ \A n \in llm_steps :
                 /\ PlacesOf(ret.steps, { "fetch" }) # {}
                 /\ \A m \in PlacesOf(ret.steps, StepsBeforeLLM) : m < n
                 /\ (class # "finance" /\ ~Falsy(Get(ret.context, "user_id", None)))
                    => PlacesOf(ret.steps, { "rag_search" }) # {}
           /\ \A m \in PlacesOf(ret.steps, { "metrics", "log" }) :
                 /\ llm_steps # {}
                 /\ \A n \in llm_steps : n < m
                 /\ "llm" \notin Range(ret.raised)

\* a sales call fetched twice, indexed twice and searched before its one
\* LLM call, and the metrics and the log came after
C27_Witness ==
    /\ ret.op = "process_query"
    /\ agents[ret.agent].class = "sales"
    /\ ret.calls = << "qb.query_invoices", "qb.query_customers",
                      "rag.add", "rag.add", "rag.search", "llm.claude" >>
    /\ ret.steps = << "fetch", "rag_index", "rag_search", "charts", "llm",
                      "metrics", "log" >>
    /\ Len(agents[ret.agent].conversation_history) = 1

\* the RAG indexing raised and the LLM client was not invoked
C27_WitnessNoLLM ==
    /\ ret.op = "process_query"
    /\ ~LacksAccess(ret.context)
    /\ "rag_index" \in Range(ret.raised)
    /\ PlacesOf(ret.calls, LLMCallNames) = {}

\* a fetch raised and the LLM client was invoked all the same
C27_WitnessFetchRaised ==
    /\ ret.op = "process_query"
    /\ ret.raised = << "fetch" >>
    /\ Cardinality(PlacesOf(ret.calls, LLMCallNames)) = 1

\* C28: process_multi_agent_query with a context that lacks the access
\* token or the realm id invokes no LLM client, whatever the query and
\* however many agents it selects.
C28_NoAccessNoLLM ==
    (ret.op = "process_multi_agent_query" /\ LacksAccess(ret.context))
    => PlacesOf(ret.calls, LLMCallNames \cup { "llm.claude_synthesis" }) = {}

\* C29: when every agent that process_multi_agent_query ran returned a
\* result with an error, the result of process_multi_agent_query has an
\* error as well.
C29_AllFailedIsError ==
    (/\ ret.op = "process_multi_agent_query"
     /\ \A i \in DOMAIN ret.ran : "error" \in DOMAIN ret.ran[i].result)
    => "error" \in DOMAIN ret.result

\* C30: the keys of the instance cache are among finance, sales and
\* operations, and the instance cached under "finance" was constructed with
\* the finance descriptor: a create_agent for "executive" or for an unknown
\* id on an empty finance slot does not leave there an instance that holds
\* another agent's descriptor or an empty one.
C30_FinanceSlotHoldsFinance ==
    /\ DOMAIN agent_cache \subseteq agent_classes
    /\ "finance" \in DOMAIN agent_cache
       => /\ agents[agent_cache["finance"]].class = "finance"
          /\ agents[agent_cache["finance"]].config
             = [kind |-> "registry", id |-> "finance"]

====
